---- MODULE Spec2Model ----
(***************************************************************************)
(* jseval: the bridge between host (Python) code and an embedded script    *)
(* engine (legacy/jseval/__init__.py, legacy/jseval/pyproxies.py).         *)
(*                                                                         *)
(* The execution is synchronous and re-entrant, so the whole program is one *)
(* call stack that alternates host and script activations.  User code      *)
(* (host callables, script programs and functions) is the most general     *)
(* client: at each step the activation on top of the stack returns,        *)
(* raises, catches or calls across the boundary.  The bridge code          *)
(* (eval, proxy call, the bootstrap wrapper, Callback.callback,            *)
(* buildPyError, wrapFunction) is translated from the source.              *)
(***************************************************************************)
EXTENDS Integers, Sequences, FiniteSets, TLC

VARIABLES
    stack,        \* the call stack, bottom first; stack[1] is the host main program
    ret,          \* the outcome handed from the activation that just ended to the one below
    slot,         \* the script object _callback: its properties args and result
    funcs,        \* Callback.funcs: identifier -> host callable
    cache,        \* the bootstrap script's cache: identifier -> wrapper function
    nextFn,       \* identity of the next function object the engine creates
    wrapHist,     \* per host callable, the wrapper functions wrapFunction has returned for it
    store,        \* pythonExceptionStore: kind name -> exception class
    codeStore,    \* JSEvaluator.codeStore: path -> code
    counter,      \* JSEvaluator.counter: the next synthetic label number
    defs,         \* the script functions the evaluated programs have declared
    inflight,     \* the failure user host code raised and nobody has caught yet
    heap,         \* the engine's objects and arrays: heap[r] is the one of reference r
    snaps,        \* the host-owned collections: copies of proxies, and encoded collections
    last,         \* the last operation host code made on a proxy, and its outcome
    peer          \* another JSEvaluator of the process: its counter, its codeStore,
                  \* its callback.funcs and the exception its last eval raised

\* the engine's objects, what host code holds of them, and the other evaluator
pvars == <<heap, snaps, last, peer>>

vars == <<stack, ret, slot, funcs, cache, nextFn, wrapHist, store, codeStore,
          counter, defs, inflight, heap, snaps, last, peer>>

(***************************************************************************)
(* Bounds of the model.                                                    *)
(***************************************************************************)
MaxStack == 11       \* activations on the call stack
MaxCounter == 2      \* synthetic labels handed out (eval calls without a path)

(***************************************************************************)
(* Program constants.                                                      *)
(***************************************************************************)
INIT_SCRIPT_NAME == "_js_eval_init.js"

InitFile == "jseval/__init__.py"

ProxyFile == "jseval/pyproxies.py"

JSEVAL_MASKED_FILES == {InitFile, ProxyFile}

UserFile == "tests.py"

(***************************************************************************)
(* Values.  Every value is a record with a field k, on both sides.         *)
(***************************************************************************)
Absent == [k |-> "absent"]       \* a property that is not set (undefined)

NoRet == [k |-> "none"]          \* nothing is being handed down the stack

NoFailure == [k |-> "none"]

NoOp == [op |-> "none"]

\* a reference to an object or array of the engine
Ref(r) == [k |-> "ref", r |-> r]

Num(n) == [k |-> "num", n |-> n]          \* a host integer

\* a floating value, of the host ("float") or of the engine ("jsnum": every
\* script number is one): finite ones are counted in halves, so h = 7 is 3.5
Float(sp, h) == [k |-> "float", sp |-> sp, h |-> h]

JsNumber(sp, h) == [k |-> "jsnum", sp |-> sp, h |-> h]

\* the script number of integral value n
JsInt(n) == JsNumber("fin", 2 * n)

Bool(b) == [k |-> "bool", b |-> b]

JsBool(b) == [k |-> "jsbool", b |-> b]

Str(s) == [k |-> "str", s |-> s]

JsStr(s) == [k |-> "jsstr", s |-> s]

PyNone == [k |-> "pynone"]

JsNull == [k |-> "null"]

Obj(props) == [k |-> "obj", props |-> props]    \* a script object and its enumerable properties

FnVal(path, line) == [k |-> "fn", path |-> path, line |-> line]   \* a script function

Arr(items) == [k |-> "arr", items |-> items]

Proxy(val) == [k |-> "proxy", val |-> val]      \* pyproxies.JSObject / JSArray over a script value

PyObject == [k |-> "pyobject"]                  \* object(): a host value with no script encoding

ErrorValue(name, msg, stk, old) ==
    [k |-> "error", name |-> name, msg |-> msg, stack |-> stk, old |-> old]

Put(f, key, v) == [x \in DOMAIN f \cup {key} |-> IF x = key THEN v ELSE f[x]]

Last(s) == s[Len(s)]

Front(s) == SubSeq(s, 1, Len(s) - 1)

RECURSIVE Reverse(_)
Reverse(s) == IF s = <<>> THEN <<>> ELSE Append(Reverse(Tail(s)), Head(s))

(***************************************************************************)
(* Exception classes of the host.  A class is its name and an identity:    *)
(* identity 0 is the built-in of that name.                                *)
(***************************************************************************)
Builtin(name) == [name |-> name, id |-> 0]

JSError == [name |-> "JSError", id |-> 0]

DomainError == [name |-> "DomainError", id |-> 1]

BuiltinNames ==
    {"AttributeError", "IndexError", "KeyError", "SyntaxError", "TypeError", "ValueError"}

\* pythonExceptionStore as the module is imported
InitialExceptionStore == [n \in BuiltinNames |-> Builtin(n)]

\* except (AttributeError, TypeError, IndexError)
FallbackKinds == {Builtin("AttributeError"), Builtin("TypeError"), Builtin("IndexError")}

\* an exception instance: e.message, e.name (JSError only), e.oldTraceback and
\* the traceback it has accumulated while propagating through host frames
Exc(cls, name, msg, old, tb) ==
    [k |-> "exc", cls |-> cls, name |-> name, msg |-> msg, old |-> old, tb |-> tb]

\* JSError.__init__
NewJSError(name, message) == Exc(JSError, name, message, <<>>, <<>>)

\* K(message) for any other class K
NewExc(cls, message) == Exc(cls, "", message, <<>>, <<>>)

\* getattr(e, 'name', e.__class__.__name__)
NameOf(e) == IF e.cls = JSError THEN e.name ELSE e.cls.name

(***************************************************************************)
(* Stack frame descriptors: [path, line, func, code].                      *)
(***************************************************************************)
Frame(path, line, func, code) ==
    [path |-> path, line |-> line, func |-> func, code |-> code]

\* the traceback entry of an activation of the bridge itself
BridgeTb(file, func) == Frame(file, 0, func, "bridge")

\* the traceback entry of a user host activation
PyTb(f) == Frame(UserFile, 1, f.func, "py:" \o f.func)

filteredTbMutNoFilter(tb) == tb

\* filteredTb: drop the entries of the masked files
filteredTb(tb) == SelectSeq(tb, LAMBDA item : item.path \notin JSEVAL_MASKED_FILES)

(***************************************************************************)
(* Program texts.  A text is its identity, its number of lines and whether *)
(* it parses.  A well-formed user program declares the function g on its   *)
(* first line and has its top-level statement on its last line.            *)
(***************************************************************************)
Code(id, n, ok) == [id |-> id, n |-> n, ok |-> ok]

UserCode == Code("prog", 2, TRUE)

Malformed == Code("bad", 2, FALSE)

\* '_callback.buildJSWrapper(%r)' % identifier
WrapperCode(identifier) == Code("wrap " \o identifier, 1, TRUE)

Codes == {UserCode, Malformed}

\* code.split('\n')[i - 1], when it exists
LineText(code, i) == code.id \o ":" \o ToString(i)

NoPath == "None"

Paths == {NoPath}

\* eval's line argument: its default and another
StartLines == {1, 2}

RecordMutSkip(cs, path, code) == cs

\* eval (214): self.codeStore[path] = code
Record(cs, path, code) == [x \in DOMAIN cs \cup {path} |-> IF x = path THEN code ELSE cs[x]]

\* '<JS string %s>' % n
SyntheticLabel(n) == "<JS string " \o ToString(n) \o ">"

(***************************************************************************)
(* Host callables.  A signature is the number of named positional          *)
(* parameters, whether it takes *args and whether it takes **kwargs.       *)
(***************************************************************************)
Callables == {"func", "exc"}

\* def func(*args, **kwargs) (tests.py 285) and def exc() (tests.py 36, 53)
Sig(f) == IF f = "func" THEN [np |-> 0, va |-> TRUE, vk |-> TRUE]
                        ELSE [np |-> 0, va |-> FALSE, vk |-> FALSE]

ParamNames == <<"k">>

\* Python's argument binding: whether f(*pos, **kw) binds, for n positional
\* arguments and the keyword names keys
Binds(sig, n, keys) ==
    /\ n > sig.np => sig.va
    /\ \A key \in keys :
          IF \E i \in 1..sig.np : ParamNames[i] = key
          THEN \E i \in 1..sig.np : ParamNames[i] = key /\ i > n
          ELSE sig.vk
    /\ \A i \in 1..sig.np : i <= n \/ ParamNames[i] \in keys

IdentifierMutShared(f) == "id(func)"

\* str(id(func)): distinct live callables have distinct identifiers, and a
\* registered callable stays alive because funcs refers to it
Identifier(f) == "id(" \o f \o ")"

(***************************************************************************)
(* Conversions.                                                            *)
(***************************************************************************)
\* int(num): truncation toward zero
Trunc(h) == IF h >= 0 THEN h \div 2 ELSE -((-h) \div 2)

buildNumberMutTruncate(v) == IF v.sp = "fin" THEN Num(Trunc(v.h)) ELSE Num(0)

\* buildNumber (245-253): int(num) raises for NaN and the infinities and the
\* floating value is returned; otherwise the int when it equals the number
buildNumber(v) ==
    IF v.sp # "fin" THEN Float(v.sp, v.h)
    ELSE LET asInt == Trunc(v.h)
         IN  IF 2 * asInt = v.h THEN Num(asInt) ELSE Float("fin", v.h)

\* traceback entries cross as arrays of four elements, element by element
FrameToJS(fr) == Arr(<<fr.path, fr.line, fr.func, fr.code>>)

FrameToPy(a) == Frame(a.items[1], a.items[2], a.items[3], a.items[4])

\* toJS of a list of entries: a new script array
TraceToJS(tb) == Arr([i \in 1..Len(tb) |-> FrameToJS(tb[i])])

\* list(toPy(array)): the entries of a script array
TraceToPy(old) == [i \in 1..Len(old.items) |-> FrameToPy(old.items[i])]

CanToJSMutAll(v) == TRUE

\* toJS succeeds on everything but a host object without script encoding,
\* for which it raises ValueError (329)
CanToJS(v) == v.k # "pyobject"

\* toJS (304-312): a proxy crosses as its script value, None as null, a
\* number, boolean or string as the engine primitive QJSValue(value) builds
toJS(v) ==
    IF v.k = "proxy" THEN v.val
    ELSE IF v.k = "pynone" THEN JsNull
    ELSE IF v.k = "bool" THEN JsBool(v.b)
    ELSE IF v.k = "num" THEN JsInt(v.n)
    ELSE IF v.k = "float" THEN JsNumber(v.sp, v.h)
    ELSE IF v.k = "str" THEN JsStr(v.s)
    ELSE v

(***************************************************************************)
(* The script engine's stack trace: one entry "func@path:line" per script  *)
(* activation on the call stack, innermost first.  The activations of the  *)
(* bootstrap wrapper carry the bootstrap script's name.                    *)
(***************************************************************************)
StackEntry(func, path, line) == [func |-> func, path |-> path, line |-> line]

RECURSIVE EngineStack(_)
EngineStack(stk) ==
    IF stk = <<>> THEN <<>>
    ELSE LET f == Last(stk)
             rest == EngineStack(Front(stk))
         IN  IF f.t = "js" THEN <<StackEntry(f.func, f.path, f.line)>> \o rest
             ELSE IF f.t = "wrapper" THEN <<StackEntry("", INIT_SCRIPT_NAME, 17)>> \o rest
             ELSE rest

\* new Error(msg) with err.name = name, created by the activation on top of stk
NewError(name, msg, stk, old) == ErrorValue(name, msg, EngineStack(stk), old)

(***************************************************************************)
(* buildPyError (262-296) and the decoding of an engine result.            *)
(***************************************************************************)
\* INIT_SCRIPT_NAME in x
IsInit(item) == item.path = INIT_SCRIPT_NAME

RECURSIVE TakeWhileUser(_)
TakeWhileUser(s) ==
    IF s = <<>> \/ IsInit(Head(s)) THEN <<>> ELSE <<Head(s)>> \o TakeWhileUser(Tail(s))

\* 275-278: drop a leading bootstrap entry, keep the entries before the next one
RelevantStack(stk) ==
    TakeWhileUser(IF stk # <<>> /\ IsInit(Head(stk)) THEN Tail(stk) ELSE stk)

\* 283, 288: the entry whose source line cannot be looked up, 0 when there is none
RECURSIVE FirstBadItem(_, _, _)
FirstBadItem(items, i, cs) ==
    IF i > Len(items) THEN 0
    ELSE IF items[i].path \notin DOMAIN cs THEN i
    ELSE IF items[i].line > cs[items[i].path].n THEN i
    ELSE FirstBadItem(items, i + 1, cs)

\* 279-289: stackInfo.insert(0, [path, line, func, code]) for each entry in turn
StackInfo(items, cs) ==
    Reverse([i \in 1..Len(items) |->
        Frame(items[i].path, items[i].line,
              IF items[i].func = "%entry" THEN "<global scope>" ELSE items[i].func,
              LineText(cs[items[i].path], items[i].line))])

\* whether buildPyError itself fails, and with which exception
buildPyErrorFails(value, cs) ==
    \/ value.stack = <<>>
    \/ FirstBadItem(RelevantStack(value.stack), 1, cs) # 0

buildPyErrorFailure(value, cs) ==
    LET items == RelevantStack(value.stack)
        bad == FirstBadItem(items, 1, cs)
    IN  IF value.stack = <<>> THEN NewExc(Builtin("AttributeError"), "group")
        ELSE IF items[bad].path \notin DOMAIN cs
             THEN NewExc(Builtin("KeyError"), items[bad].path)
             ELSE NewExc(Builtin("IndexError"), "list index out of range")

buildPyErrorMutGeneric(value, cs, st) ==
    [NewJSError(value.name, value.msg) EXCEPT
        !.old = StackInfo(RelevantStack(value.stack), cs)
                \o (IF value.old = Absent THEN <<>> ELSE TraceToPy(value.old))]

\* 290-296: the exception object, when the loop over the stack succeeded
buildPyError(value, cs, st) ==
    LET stackInfo == StackInfo(RelevantStack(value.stack), cs)
        err == IF value.name \in DOMAIN st
               THEN NewExc(st[value.name], value.msg)
               ELSE NewJSError(value.name, value.msg)
        oldTraceback == IF value.old = Absent THEN <<>> ELSE TraceToPy(value.old)
    IN  [err EXCEPT !.old = stackInfo \o oldTraceback]

Returned(v, from) == [k |-> "val", v |-> v, from |-> from]

Raised(e, from) == [k |-> "pyexc", e |-> e, from |-> from]

Thrown(e, from) == [k |-> "jserr", e |-> e, from |-> from]

throwIfNecessaryMutReturn(value, from) == Returned(value, from)

\* throwIfNecessary (218-221)
throwIfNecessary(value, from) ==
    IF value.k = "exc" THEN Raised(value, from) ELSE Returned(value, from)

\* toPy (223-243) on the values of this model
toPy(value, cs, st) ==
    IF value.k \in {"null", "absent"} THEN PyNone
    ELSE IF value.k = "jsnum" THEN buildNumber(value)
    ELSE IF value.k = "jsbool" THEN Bool(value.b)
    ELSE IF value.k = "jsstr" THEN Str(value.s)
    ELSE IF value.k = "error" THEN buildPyError(value, cs, st)
    ELSE Proxy(value)

\* the traceback entries of the bridge between the host caller and the raise
BridgeFrames(via) ==
    IF via = "eval"
    THEN <<BridgeTb(InitFile, "eval"), BridgeTb(InitFile, "throwIfNecessary")>>
    ELSE <<BridgeTb(ProxyFile, "__call__"), BridgeTb(ProxyFile, "_handleCall"),
           BridgeTb(InitFile, "throwIfNecessary")>>

\* return self.throwIfNecessary(self.toPy(result)) (216, pyproxies 159)
HostOutcome(result, via, cs, st) ==
    LET out == IF result.k = "error" /\ buildPyErrorFails(result, cs)
               THEN Raised(buildPyErrorFailure(result, cs), via)
               ELSE throwIfNecessary(toPy(result, cs, st), via)
    IN  IF out.k = "pyexc"
        THEN [out EXCEPT !.e.tb = BridgeFrames(via)] 
        ELSE out

(***************************************************************************)
(* Activations on the call stack.                                          *)
(***************************************************************************)
\* user host code: func(*pos, **kw)
PyFrame(func, pos, kw) == [t |-> "py", func |-> func, pos |-> pos, kw |-> kw]

\* user script code: the global code ("%entry") or a function
JsFrame(path, line, func) == [t |-> "js", path |-> path, line |-> line, func |-> func]

\* JSEvaluator.eval or JSObject.__call__, waiting for the engine's result;
\* eval's path, code and line are its local variables
BridgeFrame(via, path, code, line) ==
    [t |-> via, path |-> path, code |-> code, line |-> line]

\* the bootstrap script's wrapper function for identifier id, called with args
WrapperFrame(id, args) ==
    [t |-> "wrapper", id |-> id, args |-> args, pc |-> "called",
     result |-> Absent, wrote |-> Absent, outcome |-> NoRet]

\* Callback.callback, waiting for the callable it invoked
CallbackFrame(id, args, attempt, why) ==
    [t |-> "callback", id |-> id, args |-> args, attempt |-> attempt, why |-> why]

CallbackTb == BridgeTb(InitFile, "callback")

Top == stack[Len(stack)]

Pop == Front(stack)

Running(t) == ret = NoRet /\ Top.t = t

CanPush(n) == Len(stack) + n <= MaxStack

NoKw == [x \in {} |-> Absent]

Failure(e, stk) == [k |-> "failure", cls |-> e.cls, msg |-> e.msg, stack |-> stk]

UserMessage == "Hi!"

BindMessage == "func() takes no arguments"

UndefinedMessage == "Cannot read property 'type' of undefined"

(***************************************************************************)
(* Inputs.                                                                 *)
(***************************************************************************)
\* the argument lists script code calls a wrapper with
ArgLists ==
    { <<>>,
      <<JsInt(1)>>,
      <<Obj(NoKw)>>,
      <<JsInt(1), FnVal("native", 0)>>,
      <<JsInt(1), JsInt(2), Obj([test |-> JsInt(1), b |-> JsInt(2)])>> }

\* the classes user host code raises
RaiseKinds == {Builtin("TypeError"), Builtin("ValueError"), DomainError}

\* the values a host callable returns
PyReturnValues == {Num(1), PyObject}

\* the names of the errors script code throws
ThrowNames == {"Error", "TypeError"}

Init ==
    /\ stack = <<PyFrame("main", <<>>, NoKw)>>
    /\ ret = NoRet
    /\ slot = [args |-> Absent, result |-> Absent]
    /\ funcs = [x \in {} |-> Absent]
    /\ cache = [x \in {} |-> 0]
    /\ nextFn = 1
    /\ wrapHist = [f \in Callables |-> {}]
    /\ store = InitialExceptionStore
    /\ codeStore = [x \in {} |-> Absent]
    /\ counter = 1
    /\ defs = {}
    /\ inflight = NoFailure
    /\ heap = <<>>
    /\ snaps = <<>>
    /\ last = NoOp
    /\ peer = [counter |-> 1, codeStore |-> [x \in {} |-> Absent],
               funcs |-> [x \in {} |-> Absent], raised |-> Absent]

(***************************************************************************)
(* User host code.                                                         *)
(***************************************************************************)
PyReturn(v) ==
    /\ Running("py") /\ Len(stack) > 1
    /\ stack' = Pop
    /\ ret' = Returned(v, "py")
    /\ UNCHANGED <<slot, funcs, cache, nextFn, wrapHist, store, codeStore, counter,
                   defs, inflight>>
    /\ UNCHANGED pvars

PyRaise(cls) ==
    /\ Running("py") /\ Len(stack) > 1
    /\ LET e == [NewExc(cls, UserMessage) EXCEPT !.tb = <<PyTb(Top)>>]
       IN  /\ ret' = Raised(e, "py")
           /\ inflight' = Failure(e, stack)
    /\ stack' = Pop
    /\ UNCHANGED <<slot, funcs, cache, nextFn, wrapHist, store, codeStore, counter, defs>>
    /\ UNCHANGED pvars

PyCall ==
    /\ Running("py") /\ Top.func \notin {"main", "helper"} /\ CanPush(1)
    /\ stack' = Append(stack, PyFrame("helper", <<>>, NoKw))
    /\ UNCHANGED <<ret, slot, funcs, cache, nextFn, wrapHist, store, codeStore, counter,
                   defs, inflight>>
    /\ UNCHANGED pvars

PyContinue ==
    /\ Top.t = "py" /\ ret.k = "val"
    /\ ret' = NoRet
    /\ UNCHANGED <<stack, slot, funcs, cache, nextFn, wrapHist, store, codeStore,
                   counter, defs, inflight>>
    /\ UNCHANGED pvars

PyPropagate ==
    /\ Top.t = "py" /\ ret.k = "pyexc" /\ Len(stack) > 1
    /\ stack' = Pop
    /\ ret' = Raised([ret.e EXCEPT !.tb = <<PyTb(Top)>> \o @], "py")
    /\ UNCHANGED <<slot, funcs, cache, nextFn, wrapHist, store, codeStore, counter,
                   defs, inflight>>
    /\ UNCHANGED pvars

PyCatch ==
    /\ Top.t = "py" /\ ret.k = "pyexc"
    /\ ret' = NoRet
    /\ inflight' = NoFailure
    /\ UNCHANGED <<stack, slot, funcs, cache, nextFn, wrapHist, store, codeStore,
                   counter, defs>>
    /\ UNCHANGED pvars

(***************************************************************************)
(* User script code.                                                       *)
(***************************************************************************)
JsReturn ==
    /\ Running("js")
    /\ stack' = Pop
    /\ ret' = Returned(JsInt(1), "js")
    /\ UNCHANGED <<slot, funcs, cache, nextFn, wrapHist, store, codeStore, counter,
                   defs, inflight>>
    /\ UNCHANGED pvars

\* return new Error(...): the error object is a value, nothing is thrown
JsReturnError ==
    /\ Running("js")
    /\ stack' = Pop
    /\ ret' = Returned(NewError("Error", UserMessage, stack, Absent), "js")
    /\ UNCHANGED <<slot, funcs, cache, nextFn, wrapHist, store, codeStore, counter,
                   defs, inflight>>
    /\ UNCHANGED pvars

JsThrow(name) ==
    /\ Running("js")
    /\ stack' = Pop
    /\ ret' = Thrown(NewError(name, UserMessage, stack, Absent), "js")
    /\ UNCHANGED <<slot, funcs, cache, nextFn, wrapHist, store, codeStore, counter,
                   defs, inflight>>
    /\ UNCHANGED pvars

JsCall(fn) ==
    /\ Running("js") /\ Top.func = "%entry" /\ CanPush(1)
    /\ fn \in defs
    /\ stack' = Append(stack, JsFrame(fn.path, fn.line, "g"))
    /\ UNCHANGED <<ret, slot, funcs, cache, nextFn, wrapHist, store, codeStore, counter,
                   defs, inflight>>
    /\ UNCHANGED pvars

JsContinue ==
    /\ Top.t = "js" /\ ret.k = "val"
    /\ ret' = NoRet
    /\ UNCHANGED <<stack, slot, funcs, cache, nextFn, wrapHist, store, codeStore,
                   counter, defs, inflight>>
    /\ UNCHANGED pvars

JsPropagate ==
    /\ Top.t = "js" /\ ret.k = "jserr"
    /\ stack' = Pop
    /\ ret' = Thrown(ret.e, "js")
    /\ UNCHANGED <<slot, funcs, cache, nextFn, wrapHist, store, codeStore, counter,
                   defs, inflight>>
    /\ UNCHANGED pvars

JsCatch ==
    /\ Top.t = "js" /\ ret.k = "jserr"
    /\ ret' = NoRet
    /\ inflight' = NoFailure
    /\ UNCHANGED <<stack, slot, funcs, cache, nextFn, wrapHist, store, codeStore,
                   counter, defs>>
    /\ UNCHANGED pvars

(***************************************************************************)
(* JSEvaluator.eval (205-216) and JSObject.__call__ (pyproxies 153-167).   *)
(***************************************************************************)
\* 212-215: label the text, record it, hand it to the engine.  A text that
\* does not parse comes back at once as a SyntaxError value for its last line.
PyEval(code, path, line) ==
    /\ Running("py")
    /\ path = NoPath => counter <= MaxCounter
    /\ LET p == IF path = NoPath THEN SyntheticLabel(counter) ELSE path
       IN  /\ counter' = IF path = NoPath THEN counter + 1 ELSE counter
           /\ codeStore' = Record(codeStore, p, code)
           /\ IF code.ok
              THEN /\ CanPush(2)
                   /\ stack' = stack \o <<BridgeFrame("eval", p, code, line),
                                          JsFrame(p, line + code.n - 1, "%entry")>>
                   /\ defs' = defs \cup {FnVal(p, line)}
                   /\ ret' = NoRet
              ELSE /\ CanPush(1)
                   /\ stack' = Append(stack, BridgeFrame("eval", p, code, line))
                   /\ defs' = defs
                   /\ ret' = Returned(
                        ErrorValue("SyntaxError", "Expected token",
                                   <<StackEntry("", p, line + code.n - 1)>>, Absent),
                        "js")
    /\ UNCHANGED <<slot, funcs, cache, nextFn, wrapHist, store, inflight>>
    /\ UNCHANGED pvars

\* pyproxies 164-167, 153-158: call the script function fn from host code
PyCallProxy(fn) ==
    /\ Running("py") /\ CanPush(2)
    /\ fn \in defs
    /\ stack' = stack \o <<BridgeFrame("proxycall", NoPath, Absent, 0),
                        JsFrame(fn.path, fn.line, "g")>>
    /\ UNCHANGED <<ret, slot, funcs, cache, nextFn, wrapHist, store, codeStore, counter,
                   defs, inflight>>
    /\ UNCHANGED pvars

\* 216 and pyproxies 159: decode the engine's result; an error is raised
BridgeResume ==
    /\ Top.t \in {"eval", "proxycall"} /\ ret.k \in {"val", "jserr"}
    /\ LET result == IF ret.k = "jserr" THEN ret.e ELSE ret.v
           out == HostOutcome(result, Top.t, codeStore, store)
       IN  ret' = IF out.k = "pyexc"
                  THEN [k |-> "pyexc", e |-> out.e, from |-> out.from,
                        of |-> result, thrown |-> ret.k = "jserr", frame |-> Top]
                  ELSE [k |-> "val", v |-> out.v, from |-> out.from,
                        of |-> result, thrown |-> ret.k = "jserr", frame |-> Top]
    /\ stack' = Pop
    /\ UNCHANGED <<slot, funcs, cache, nextFn, wrapHist, store, codeStore, counter,
                   defs, inflight>>
    /\ UNCHANGED pvars

(***************************************************************************)
(* wrapFunction (331-336) with the bootstrap script's buildJSWrapper.      *)
(***************************************************************************)
buildJSWrapperMutNoCache(c, id, fresh) == Put(c, id, fresh)

\* INIT_SCRIPT buildJSWrapper (66-71): the cache after the call; the function
\* returned is the cache's entry for id
buildJSWrapper(c, id, fresh) == IF id \in DOMAIN c THEN c ELSE Put(c, id, fresh)

PyWrap(f) ==
    /\ Running("py")
    /\ counter <= MaxCounter
    /\ LET identifier == Identifier(f)
           newCache == buildJSWrapper(cache, identifier, nextFn)
       IN  /\ funcs' = Put(funcs, identifier, f)
           /\ codeStore' = Record(codeStore, SyntheticLabel(counter),
                                  WrapperCode(identifier))
           /\ counter' = counter + 1
           /\ cache' = newCache
           /\ nextFn' = IF newCache = cache THEN nextFn ELSE nextFn + 1
           /\ wrapHist' = [wrapHist EXCEPT ![f] = @ \cup {newCache[identifier]}]
    /\ UNCHANGED <<stack, ret, slot, store, defs, inflight>>
    /\ UNCHANGED pvars

(***************************************************************************)
(* The wrapper function (INIT_SCRIPT newWrapper, 47-64) and                *)
(* Callback.callback (99-131).                                             *)
(***************************************************************************)
\* 48-51: exports.args = arguments; exports.pyCallback(id)
JsCallWrapper(id, args) ==
    /\ Running("js") /\ CanPush(3)
    /\ id \in DOMAIN cache
    /\ stack' = Append(stack, WrapperFrame(id, args))
    /\ slot' = [slot EXCEPT !.args = [items |-> args, owner |-> Len(stack) + 1]]
    /\ UNCHANGED <<ret, funcs, cache, nextFn, wrapHist, store, codeStore, counter,
                   defs, inflight>>
    /\ UNCHANGED pvars

\* whether strategy (1) can be attempted: args[-1].iteritems() exists
HasIterItems(v) == v.k = "proxy" /\ v.val.k \in {"obj", "fn"}

CanTry1(args) == args # <<>> /\ HasIterItems(Last(args))

KwargsMutEmpty(args) == NoKw

\* dict(args[-1].iteritems())
Kwargs(args) ==
    LET o == Last(args).val
    IN  IF o.k = "obj" THEN [key \in DOMAIN o.props |-> buildNumber(o.props[key])] ELSE NoKw

\* 117-126: the record of a failure e caught with traceback tb
ExceptionRecord(e, tb, owner) ==
    [type |-> "exception",
     value |-> [message |-> e.msg, name |-> NameOf(e),
                oldTraceback |-> TraceToJS(filteredTb(tb) \o e.old)],
     owner |-> owner]

\* 128-131: the record of a returned value
ResultRecord(v, owner) == [type |-> "result", value |-> toJS(v), owner |-> owner]

\* 110-114: remember the class of a failure that is not a JSError
Remember(st, e) == IF e.cls # JSError THEN Put(st, e.cls.name, e.cls) ELSE st

CallbackDone(wrote, outcome) == [k |-> "cbdone", wrote |-> wrote, outcome |-> outcome]

\* the failure of func(*args) to bind, caught at 110
BindFailure == [NewExc(Builtin("TypeError"), BindMessage) EXCEPT !.tb = <<>>]

\* 101-109: look the callable up, pop the arguments, bind them and invoke it
CallbackEnter ==
    /\ Running("wrapper") /\ Top.pc = "called"
    /\ Top.id \in DOMAIN funcs /\ slot.args # Absent
    /\ LET func == funcs[Top.id]
           popped == slot.args
           args == [i \in 1..Len(popped.items) |-> toPy(popped.items[i], codeStore, store)]
           me == Len(stack) + 1
       IN  /\ IF CanTry1(args) /\ Binds(Sig(func), Len(args) - 1, DOMAIN Kwargs(args))
              THEN /\ stack' = stack \o <<CallbackFrame(Top.id, popped, 1, "first"),
                                          PyFrame(func, Front(args), Kwargs(args))>>
                   /\ slot' = [slot EXCEPT !.args = Absent]
                   /\ UNCHANGED <<ret, store>>
              ELSE IF Binds(Sig(func), Len(args), {})
              THEN /\ stack' = stack \o <<CallbackFrame(Top.id, popped, 2, "nobind"),
                                          PyFrame(func, args, NoKw)>>
                   /\ slot' = [slot EXCEPT !.args = Absent]
                   /\ UNCHANGED <<ret, store>>
              ELSE /\ stack' = stack
                   /\ store' = Remember(store, BindFailure)
                   /\ slot' = [args |-> Absent,
                               result |-> ExceptionRecord(BindFailure, <<CallbackTb>>, me)]
                   /\ ret' = CallbackDone(slot'.result, Raised(BindFailure, "py"))
    /\ UNCHANGED <<funcs, cache, nextFn, wrapHist, codeStore, counter, defs, inflight>>
    /\ UNCHANGED pvars

\* 104-131, after the callable has returned or raised
CallbackResume ==
    /\ Top.t = "callback" /\ ret.k \in {"val", "pyexc"}
    /\ LET cb == Top
           me == Len(stack)
           func == funcs[cb.id]
           args == [i \in 1..Len(cb.args.items) |->
                        toPy(cb.args.items[i], codeStore, store)]
           caught == [ret.e EXCEPT !.tb = <<CallbackTb>> \o @]
       IN  IF ret.k = "val"
           THEN \* 128-131; toJS raises ValueError for a value without encoding
                /\ stack' = Pop
                /\ slot' = IF CanToJS(ret.v)
                           THEN [slot EXCEPT !.result = ResultRecord(ret.v, me)]
                           ELSE slot
                /\ ret' = CallbackDone(IF CanToJS(ret.v) THEN slot'.result ELSE Absent, ret)
                /\ UNCHANGED <<store, inflight>>
           ELSE IF cb.attempt = 1 /\ ret.e.cls \notin FallbackKinds
           THEN \* no handler of 107 matches: the failure leaves the slot method
                /\ stack' = Pop
                /\ ret' = CallbackDone(Absent, ret)
                /\ UNCHANGED <<slot, store, inflight>>
           ELSE IF cb.attempt = 1 /\ Binds(Sig(func), Len(args), {})
           THEN \* 107-109: the callable is invoked again with every argument positional
                /\ stack' = Pop \o <<CallbackFrame(cb.id, cb.args, 2, "raised"),
                                     PyFrame(func, args, NoKw)>>
                /\ ret' = NoRet
                /\ inflight' = NoFailure
                /\ UNCHANGED <<slot, store>>
           ELSE \* 110-127
                LET e == IF cb.attempt = 1 THEN BindFailure ELSE ret.e
                    tb == IF cb.attempt = 1 THEN <<CallbackTb>> ELSE caught.tb
                IN  /\ stack' = Pop
                    /\ store' = Remember(store, e)
                    /\ slot' = [slot EXCEPT !.result = ExceptionRecord(e, tb, me)]
                    /\ ret' = CallbackDone(slot'.result, Raised(e, "py"))
                    /\ UNCHANGED inflight
    /\ UNCHANGED <<funcs, cache, nextFn, wrapHist, codeStore, counter, defs>>
    /\ UNCHANGED pvars

WrapperReadMutKeep(s) == s

\* 54: delete exports.result
WrapperRead(s) == [s EXCEPT !.result = Absent]

\* 53-54: var result = exports.result; delete exports.result
WrapperResume ==
    /\ Top.t = "wrapper" /\ ret.k = "cbdone"
    /\ stack' = Pop \o <<[Top EXCEPT !.pc = "read", !.result = slot.result,
                                     !.wrote = ret.wrote, !.outcome = ret.outcome]>>
    /\ slot' = WrapperRead(slot)
    /\ ret' = NoRet
    /\ UNCHANGED <<funcs, cache, nextFn, wrapHist, store, codeStore, counter, defs,
                   inflight>>
    /\ UNCHANGED pvars

\* 55-62: return the value, or throw an Error built from the record; reading
\* result.type of an absent record is the engine's own TypeError
WrapperFinish ==
    /\ Running("wrapper") /\ Top.pc = "read"
    /\ LET result == Top.result
       IN  ret' = IF result = Absent
                  THEN Thrown(NewError("TypeError", UndefinedMessage, stack, Absent),
                              "wrapper")
                  ELSE IF result.type = "result"
                  THEN Returned(result.value, "wrapper")
                  ELSE Thrown(NewError(result.value.name, result.value.message, stack,
                                       result.value.oldTraceback), "wrapper")
    /\ stack' = Pop
    /\ UNCHANGED <<slot, funcs, cache, nextFn, wrapHist, store, codeStore, counter,
                   defs, inflight>>
    /\ UNCHANGED pvars

\* eval (212-216) on the other evaluator, of a text with no label that runs to
\* its end at once: the label comes from that evaluator's own counter (192)
PeerEval(code) ==
    /\ peer.counter <= MaxCounter
    /\ peer' = [peer EXCEPT
                  !.counter = @ + 1,
                  !.codeStore = Record(@, SyntheticLabel(peer.counter), code)]
    /\ UNCHANGED <<stack, ret, slot, funcs, cache, nextFn, wrapHist, store, codeStore,
                   counter, defs, inflight, heap, snaps, last>>

\* wrapFunction (331-336) on the other evaluator: its own Callback's funcs
\* (96, 189) gets the callable, and the wrapper text is evaluated there
PeerWrap(f) ==
    /\ Running("py")
    /\ peer.counter <= MaxCounter
    /\ peer' = [peer EXCEPT
                  !.funcs = Put(@, Identifier(f), f),
                  !.counter = @ + 1,
                  !.codeStore = Record(@, SyntheticLabel(peer.counter),
                                       WrapperCode(Identifier(f)))]
    /\ UNCHANGED <<stack, ret, slot, funcs, cache, nextFn, wrapHist, store, codeStore,
                   counter, defs, inflight, heap, snaps, last>>

\* eval (205-216) on the other evaluator of a one-line text that throws an
\* error named name: the exception comes from the module's pythonExceptionStore
PeerThrow(name) ==
    /\ Running("py")
    /\ peer.counter <= MaxCounter
    /\ LET path == SyntheticLabel(peer.counter)
           cs == Record(peer.codeStore, path, Code("throw " \o name, 1, TRUE))
           value == ErrorValue(name, UserMessage, <<StackEntry("%entry", path, 1)>>, Absent)
       IN  peer' = [peer EXCEPT !.counter = @ + 1, !.codeStore = cs,
                                !.raised = toPy(value, cs, store)]
    /\ UNCHANGED <<stack, ret, slot, funcs, cache, nextFn, wrapHist, store, codeStore,
                   counter, defs, inflight, heap, snaps, last>>

Next ==
    \/ \E v \in PyReturnValues : PyReturn(v)
    \/ \E cls \in RaiseKinds : PyRaise(cls)
    \/ PyCall
    \/ PyContinue
    \/ PyPropagate
    \/ PyCatch
    \/ \E code \in Codes, path \in Paths, line \in StartLines : PyEval(code, path, line)
    \/ \E fn \in defs : PyCallProxy(fn)
    \/ \E f \in Callables : PyWrap(f)
    \/ BridgeResume
    \/ JsReturn
    \/ JsReturnError
    \/ \E name \in ThrowNames : JsThrow(name)
    \/ \E fn \in defs : JsCall(fn)
    \/ JsContinue
    \/ JsPropagate
    \/ JsCatch
    \/ \E id \in DOMAIN cache, args \in ArgLists : JsCallWrapper(id, args)
    \/ CallbackEnter
    \/ CallbackResume
    \/ WrapperResume
    \/ WrapperFinish

Spec == Init /\ [][Next]_vars

\* two evaluators in one process: evaluations and wrappings on the first,
\* evaluations on the other
LabelNext ==
    \/ \E code \in Codes, line \in StartLines : PyEval(code, NoPath, line)
    \/ \E f \in Callables : PyWrap(f)
    \/ JsReturn
    \/ BridgeResume
    \/ PyContinue
    \/ PyCatch
    \/ \E code \in Codes : PeerEval(code)

LabelSpec == Init /\ [][LabelNext]_vars

\* two evaluators of one process: dispatches on one, registrations and script
\* errors on the other
RegistryNext ==
    \/ \E cls \in RaiseKinds : PyRaise(cls)
    \/ PyCatch
    \/ PyEval(UserCode, NoPath, 1)
    \/ \E f \in Callables : PyWrap(f)
    \/ BridgeResume
    \/ JsPropagate
    \/ \E id \in DOMAIN cache, args \in ArgLists : JsCallWrapper(id, args)
    \/ CallbackEnter
    \/ CallbackResume
    \/ WrapperResume
    \/ WrapperFinish
    \/ \E f \in Callables : PeerWrap(f)
    \/ \E name \in {"DomainError", "Error"} : PeerThrow(name)

RegistrySpec == Init /\ [][RegistryNext]_vars

(***************************************************************************)
(* The engine's objects and arrays, and the proxies over them              *)
(* (pyproxies.py).  A script object or array has an identity: the heap     *)
(* maps a reference to its contents, and a proxy holds the reference.      *)
(***************************************************************************)
MaxLen == 4          \* elements of an array or of a host list
MaxRefs == 4         \* objects and arrays of the engine

\* host-owned collections: a list and a dict (JSObjectCopy)
HList(items) == [k |-> "list", items |-> items]

HDict(props) == [k |-> "dict", props |-> props]

IsArray(h, r) == h[r].k = "arr"

IsObject(h, r) == h[r].k = "obj"

\* the properties every object inherits from Object.prototype, of which
\* toString stands for all: they are not enumerated and are not the object's own
Inherited == [toString |-> FnVal("native", 0)]

\* QJSValue.hasProperty(name): own or inherited; hasOwnProperty is
\* key \in DOMAIN h[r].props
hasProperty(h, r, key) == key \in DOMAIN h[r].props \/ key \in DOMAIN Inherited

\* QJSValue.property(index) / property(name): undefined when there is none
GetProperty(h, r, key) ==
    IF IsArray(h, r)
    THEN IF key \in 0..(Len(h[r].items) - 1) THEN h[r].items[key + 1] ELSE Absent
    ELSE IF key \in DOMAIN h[r].props THEN h[r].props[key]
    ELSE IF key \in DOMAIN Inherited THEN Inherited[key]
    ELSE Absent

\* the engine's assignment to an array index: an index at or past the end
\* extends the array, the elements in between being undefined
SetIndex(items, i, v) ==
    [j \in 1..(IF i + 1 > Len(items) THEN i + 1 ELSE Len(items)) |->
        IF j = i + 1 THEN v ELSE IF j <= Len(items) THEN items[j] ELSE Absent]

setPropertyMutLost(h, r, key, v) == h

\* QJSValue.setProperty(key, value) for an index from 0 or a property name
setProperty(h, r, key, v) ==
    IF IsArray(h, r)
    THEN [h EXCEPT ![r] = Arr(SetIndex(h[r].items, key, v))]
    ELSE [h EXCEPT ![r] = Obj(Put(h[r].props, key, v))]

\* QJSValue.deleteProperty(name)
deleteProperty(h, r, key) ==
    [h EXCEPT ![r] = Obj([x \in DOMAIN h[r].props \ {key} |-> h[r].props[x]])]

spliceMutOverwrite(items, start, deleteCount, new) ==
    IF new = <<>> THEN SubSeq(items, 1, start) \o SubSeq(items, start + 2, Len(items))
    ELSE SetIndex(items, start, new[1])

\* Array.prototype.splice(start, deleteCount, ...new): the array afterwards
splice(items, start, deleteCount, new) ==
    LET n == Len(items)
        from == IF start < 0 THEN (IF n + start > 0 THEN n + start ELSE 0)
                ELSE IF start > n THEN n ELSE start
        count == IF deleteCount < 0 THEN 0
                 ELSE IF deleteCount > n - from THEN n - from ELSE deleteCount
    IN  SubSeq(items, 1, from) \o new \o SubSeq(items, from + count + 1, n)

\* JSArray._splice (58-60)
Splice(h, r, start, deleteCount, new) ==
    [h EXCEPT ![r] = Arr(splice(h[r].items, start, deleteCount, new))]

\* JSArray.__len__ (75-76)
ArrayLen(h, r) == Len(h[r].items)

normalizeMutNoWrap(n, idx) == idx

\* JSArray._normalize (62-67): the index addressed
normalize(n, idx) == IF idx < 0 THEN n + idx ELSE idx

\* JSArray._normalize (65-66): raise self.NotFound(idx)
NotFound(n, idx) == ~(0 <= normalize(n, idx) /\ normalize(n, idx) < n)

\* JSValue._get (35-36)
Get(h, r, key, cs, st) == toPy(GetProperty(h, r, key), cs, st)

\* the elements and property values of the engine's arrays and objects
Cells(h) ==
    UNION {IF h[x].k = "arr" THEN {h[x].items[j] : j \in 1..Len(h[x].items)}
           ELSE {h[x].props[key] : key \in DOMAIN h[x].props} : x \in DOMAIN h}

\* the host value a cell of the engine is read as
Shown(cell) ==
    IF cell.k = "jsnum" THEN Num(cell.h \div 2)
    ELSE IF cell.k = "ref" THEN Proxy(cell)
    ELSE PyNone

\* the keys of a proxy in iteration order: 0..len-1 (51-53), or the property
\* names the engine's iterator yields (145-148)
Keys(h, r) == IF IsArray(h, r) THEN 0..(Len(h[r].items) - 1) ELSE DOMAIN h[r].props

deepcopyMutShallow(h, r, cs, st) ==
    IF IsArray(h, r)
    THEN HList([j \in 1..Len(h[r].items) |-> Get(h, r, j - 1, cs, st)])
    ELSE HDict([key \in DOMAIN h[r].props |-> Get(h, r, key, cs, st)])

\* JSArray.__deepcopy__ (85-86), JSObject.__deepcopy__ (180-181): every item
\* is deep-copied in turn, a proxy among them by its own __deepcopy__
RECURSIVE deepcopy(_, _, _, _)
deepcopy(h, r, cs, st) ==
    LET item(key) ==
            LET got == Get(h, r, key, cs, st)
            IN  IF got.k = "proxy" THEN deepcopy(h, got.val.r, cs, st) ELSE got
    IN  IF IsArray(h, r)
        THEN HList([j \in 1..Len(h[r].items) |-> item(j - 1)])
        ELSE HDict([key \in DOMAIN h[r].props |-> item(key)])

copyMutDetached(h, r, cs, st) == deepcopy(h, r, cs, st)

\* JSArray.__copy__ (82-83): list(self); JSObject.__copy__ (175-176):
\* JSObjectCopy(self).  The items are what reading the proxy returns.
copyProxy(h, r, cs, st) ==
    IF IsArray(h, r)
    THEN HList([j \in 1..Len(h[r].items) |-> Get(h, r, j - 1, cs, st)])
    ELSE HDict([key \in DOMAIN h[r].props |-> Get(h, r, key, cs, st)])

\* what host code sees in a host value: the contents of a proxy in it are
\* those of the engine's value at the time of looking
RECURSIVE View(_, _)
View(v, h) ==
    IF v.k = "proxy"
    THEN IF IsArray(h, v.val.r)
         THEN HList([j \in 1..Len(h[v.val.r].items) |->
                        View(Shown(h[v.val.r].items[j]), h)])
         ELSE HDict([key \in DOMAIN h[v.val.r].props |->
                        View(Shown(h[v.val.r].props[key]), h)])
    ELSE IF v.k = "list" THEN HList([j \in 1..Len(v.items) |-> View(v.items[j], h)])
    ELSE IF v.k = "dict" THEN HDict([key \in DOMAIN v.props |-> View(v.props[key], h)])
    ELSE v

\* what host code sees in each of its collections
Views == [i \in 1..Len(snaps) |-> View(snaps[i].value, heap)]

\* a host-owned collection: how it was made, from or into which engine value
Snapshot(mode, r, value) == [mode |-> mode, of |-> r, value |-> value]

\* the record of an operation on the host collection snaps[i]
SnapOp(op, i, at, arg) ==
    [op |-> op, snap |-> i, at |-> at, arg |-> arg, heapBefore |-> heap,
     valueBefore |-> snaps[i].value]

\* the record of an operation on the array proxy over r
ArrayOp(op, r, idx, arg, raised, result) ==
    [op |-> op, ref |-> r, idx |-> idx, arg |-> arg, before |-> heap[r].items,
     raised |-> raised, result |-> result, views |-> Views]

\* the values host code stores through a proxy
StoredValues == {Num(4)}

\* the indexes host code uses on an array proxy
Indexes == (-(MaxLen + 1))..(MaxLen + 1)

\* what the binding does with a negative index given to setProperty, whose
\* parameter is unsigned: it is refused, or wraps to a number that is no array
\* index and names an ordinary property
NegativeIndexOutcomes == {"OverflowError", "none"}

\* the programs whose value host code obtains as a proxy: [1, 2, 3]
\* (tests.py 173), [{key: 1}] (186) and ({a: {key: 1}}) (223)
Literals ==
    { <<Arr(<<JsInt(1), JsInt(2), JsInt(3)>>)>>,
      <<Arr(<<Ref(2)>>), Obj([key |-> JsInt(1)])>>,
      <<Obj([a |-> Ref(2)]), Obj([key |-> JsInt(1)])>> }

\* eval of a literal: the engine builds its objects and eval returns a proxy
EvalLiteral(lit) ==
    /\ heap = <<>>
    /\ heap' = lit
    /\ last' = NoOp
    /\ UNCHANGED <<peer, stack, ret, slot, funcs, cache, nextFn, wrapHist, store,
                   codeStore, counter, defs, inflight, snaps>>

\* JSArray.__getitem__ (69-70)
ArrGet(r, idx) ==
    /\ IsArray(heap, r)
    /\ LET n == ArrayLen(heap, r)
       IN  last' = IF NotFound(n, idx)
                   THEN ArrayOp("get", r, idx, PyNone, "IndexError", PyNone)
                   ELSE ArrayOp("get", r, idx, PyNone, "none",
                                Get(heap, r, normalize(n, idx), codeStore, store))
    /\ UNCHANGED <<peer, stack, ret, slot, funcs, cache, nextFn, wrapHist, store,
                   codeStore, counter, defs, inflight, heap, snaps>>

\* JSArray.__delitem__ (72-73)
ArrDel(r, idx) ==
    /\ IsArray(heap, r)
    /\ LET n == ArrayLen(heap, r)
       IN  IF NotFound(n, idx)
           THEN /\ heap' = heap
                /\ last' = ArrayOp("del", r, idx, PyNone, "IndexError", PyNone)
           ELSE /\ heap' = Splice(heap, r, normalize(n, idx), 1, <<>>)
                /\ last' = ArrayOp("del", r, idx, PyNone, "none", PyNone)
    /\ UNCHANGED <<peer, stack, ret, slot, funcs, cache, nextFn, wrapHist, store,
                   codeStore, counter, defs, inflight, snaps>>

\* JSValue.__setitem__ (38-39) on an array proxy: the key goes to setProperty as given
ArrSet(r, idx, v) ==
    /\ IsArray(heap, r)
    /\ idx < MaxLen
    /\ IF ~CanToJS(v)
       THEN /\ heap' = heap
            /\ last' = ArrayOp("set", r, idx, v, "ValueError", PyNone)
       ELSE IF idx >= 0
       THEN /\ heap' = setProperty(heap, r, idx, toJS(v))
            /\ last' = ArrayOp("set", r, idx, v, "none", PyNone)
       ELSE /\ heap' = heap
            /\ \E outcome \in NegativeIndexOutcomes :
                  last' = ArrayOp("set", r, idx, v, outcome, PyNone)
    /\ UNCHANGED <<peer, stack, ret, slot, funcs, cache, nextFn, wrapHist, store,
                   codeStore, counter, defs, inflight, snaps>>

\* JSArray.insert (55-56)
ArrInsert(r, idx, v) ==
    /\ IsArray(heap, r)
    /\ ArrayLen(heap, r) < MaxLen
    /\ IF CanToJS(v)
       THEN /\ heap' = Splice(heap, r, idx, 0, <<toJS(v)>>)
            /\ last' = ArrayOp("insert", r, idx, v, "none", PyNone)
       ELSE /\ heap' = heap
            /\ last' = ArrayOp("insert", r, idx, v, "ValueError", PyNone)
    /\ UNCHANGED <<peer, stack, ret, slot, funcs, cache, nextFn, wrapHist, store,
                   codeStore, counter, defs, inflight, snaps>>

\* the record of an operation on the object proxy over r
ObjectOp(op, r, name, arg, raised, result) ==
    [op |-> op, ref |-> r, name |-> name, arg |-> arg, before |-> heap[r].props,
     raised |-> raised, result |-> result, views |-> Views]

\* the property names host code uses on an object proxy
Names == {"key", "b"}

\* JSObject.__getitem__ (135-138)
ObjGet(r, name) ==
    /\ IsObject(heap, r)
    /\ last' = IF hasProperty(heap, r, name)
               THEN ObjectOp("oget", r, name, PyNone, "none",
                             Get(heap, r, name, codeStore, store))
               ELSE ObjectOp("oget", r, name, PyNone, "KeyError", PyNone)
    /\ UNCHANGED <<peer, stack, ret, slot, funcs, cache, nextFn, wrapHist, store,
                   codeStore, counter, defs, inflight, heap, snaps>>

\* JSValue.__setitem__ (38-39) on an object proxy
ObjSet(r, name, v) ==
    /\ IsObject(heap, r)
    /\ IF CanToJS(v)
       THEN /\ heap' = setProperty(heap, r, name, toJS(v))
            /\ last' = ObjectOp("oset", r, name, v, "none", PyNone)
       ELSE /\ heap' = heap
            /\ last' = ObjectOp("oset", r, name, v, "ValueError", PyNone)
    /\ UNCHANGED <<peer, stack, ret, slot, funcs, cache, nextFn, wrapHist, store,
                   codeStore, counter, defs, inflight, snaps>>

\* JSObject.__delitem__ (140-143): hasOwnProperty decides
ObjDel(r, name) ==
    /\ IsObject(heap, r)
    /\ IF name \in DOMAIN heap[r].props
       THEN /\ heap' = deleteProperty(heap, r, name)
            /\ last' = ObjectOp("odel", r, name, PyNone, "none", PyNone)
       ELSE /\ heap' = heap
            /\ last' = ObjectOp("odel", r, name, PyNone, "KeyError", PyNone)
    /\ UNCHANGED <<peer, stack, ret, slot, funcs, cache, nextFn, wrapHist, store,
                   codeStore, counter, defs, inflight, snaps>>

(***************************************************************************)
(* Operations that walk a script value through its proxies: repr, == and   *)
(* copy.deepcopy.  Each nested call is a Python call, and the interpreter   *)
(* raises RuntimeError once RecursionLimit calls are nested.               *)
(***************************************************************************)
RecursionLimit == 4

\* JSValue._possiblyRecursive (41-42), for the proxy of r and an item that is
\* the proxy of x: isinstance(property, self.__class__)
possiblyRecursive(h, r, x) == h[x].k = h[r].k

\* the script values whose proxies the operation on the proxy of r calls the
\* same operation on: repr skips those _possiblyRecursive names (79, 171);
\* __eq__ (89, 131) and __deepcopy__ (86, 181) skip none
Descends(h, r, op) ==
    {c.r : c \in {d \in Cells(<<h[r]>>) :
                     /\ d.k = "ref"
                     /\ op = "repr" => ~possiblyRecursive(h, r, d.r)}}

\* whether the operation started on r at the given nesting exceeds the limit
RECURSIVE Overflows(_, _, _, _)
Overflows(h, r, op, depth) ==
    \/ depth > RecursionLimit
    \/ \E x \in Descends(h, r, op) : Overflows(h, x, op, depth + 1)

\* JSArray.__repr__ (78-80), JSObject.__repr__ (169-173): the class name and
\* the items, '[...]' or '{...}' standing for an item of the proxy's own class
RECURSIVE repr(_, _)
repr(h, r) ==
    LET item(c) ==
            IF c.k # "ref" THEN Shown(c)
            ELSE IF possiblyRecursive(h, r, c.r)
            THEN Str(IF IsArray(h, r) THEN "[...]" ELSE "{...}")
            ELSE repr(h, c.r)
    IN  IF IsArray(h, r)
        THEN [cls |-> "JSArray", items |-> [j \in 1..Len(h[r].items) |-> item(h[r].items[j])]]
        ELSE [cls |-> "JSObject",
              props |-> [key \in DOMAIN h[r].props |-> item(h[r].props[key])]]

\* script values that contain themselves: a = [a], o = {a: o}, and
\* a = [o] with o = {a: a}; and [[1]] and {a: {key: 1}}, which do not
CyclicLiterals ==
    { <<Arr(<<Ref(1)>>)>>,
      <<Obj([a |-> Ref(1)])>>,
      <<Arr(<<Ref(2)>>), Obj([a |-> Ref(1)])>>,
      <<Arr(<<Ref(2)>>), Arr(<<JsInt(1)>>)>>,
      <<Obj([a |-> Ref(2)]), Obj([key |-> JsInt(1)])>> }

\* repr(proxy)
Render(r) ==
    /\ last' = IF Overflows(heap, r, "repr", 1)
               THEN [op |-> "repr", ref |-> r, raised |-> "RuntimeError", result |-> PyNone]
               ELSE [op |-> "repr", ref |-> r, raised |-> "none", result |-> repr(heap, r)]
    /\ UNCHANGED <<peer, stack, ret, slot, funcs, cache, nextFn, wrapHist, store,
                   codeStore, counter, defs, inflight, heap, snaps>>

\* proxy == another proxy of the same script value (88-89, 129-133): every
\* pair of items is compared, a pair of proxies by the same method;
\* RuntimeError is not among the exceptions JSObject.__eq__ handles
EqualsItself(r) ==
    /\ last' = IF Overflows(heap, r, "eq", 1)
               THEN [op |-> "eqself", ref |-> r, raised |-> "RuntimeError", result |-> PyNone]
               ELSE [op |-> "eqself", ref |-> r, raised |-> "none", result |-> Bool(TRUE)]
    /\ UNCHANGED <<peer, stack, ret, slot, funcs, cache, nextFn, wrapHist, store,
                   codeStore, counter, defs, inflight, heap, snaps>>

\* names that ordinary attribute lookup finds on a JSObject: the instance's
\* val (33) and the class's copy (178)
ProxyAttributes == {"val", "copy"}

\* proxy.attr: KeysAsAttributesMixin.__getattr__ (97-104) is reached only when
\* ordinary lookup finds nothing; the mixin's base has no __getattr__, so the
\* key is read and KeyError becomes AttributeError
AttrGet(r, attr) ==
    /\ IsObject(heap, r)
    /\ last' = IF attr \in ProxyAttributes
               THEN ObjectOp("getattr", r, attr, PyNone, "none",
                             [k |-> "attribute", name |-> attr])
               ELSE IF hasProperty(heap, r, attr)
               THEN ObjectOp("getattr", r, attr, PyNone, "none",
                             Get(heap, r, attr, codeStore, store))
               ELSE ObjectOp("getattr", r, attr, PyNone, "AttributeError", PyNone)
    /\ UNCHANGED <<peer, stack, ret, slot, funcs, cache, nextFn, wrapHist, store,
                   codeStore, counter, defs, inflight, heap, snaps>>

\* proxy.attr = value: KeysAsAttributesMixin.__setattr__ (106-107) is
\* self[attr] = value (38-39) for every name
AttrSet(r, attr, v) ==
    /\ IsObject(heap, r)
    /\ IF CanToJS(v)
       THEN /\ heap' = setProperty(heap, r, attr, toJS(v))
            /\ last' = ObjectOp("setattr", r, attr, v, "none", PyNone)
       ELSE /\ heap' = heap
            /\ last' = ObjectOp("setattr", r, attr, v, "ValueError", PyNone)
    /\ UNCHANGED <<peer, stack, ret, slot, funcs, cache, nextFn, wrapHist, store,
                   codeStore, counter, defs, inflight, snaps>>

\* del proxy.attr: KeysAsAttributesMixin.__delattr__ (109-113) is
\* del self[attr] (140-143) for every name, KeyError becoming AttributeError
AttrDel(r, attr) ==
    /\ IsObject(heap, r)
    /\ IF attr \in DOMAIN heap[r].props
       THEN /\ heap' = deleteProperty(heap, r, attr)
            /\ last' = ObjectOp("delattr", r, attr, PyNone, "none", PyNone)
       ELSE /\ heap' = heap
            /\ last' = ObjectOp("delattr", r, attr, PyNone, "AttributeError", PyNone)
    /\ UNCHANGED <<peer, stack, ret, slot, funcs, cache, nextFn, wrapHist, store,
                   codeStore, counter, defs, inflight, snaps>>

\* copy.copy(proxy) (82-83, 175-178)
Copy(r) ==
    /\ snaps = <<>>
    /\ snaps' = Append(snaps, Snapshot("copy", r, copyProxy(heap, r, codeStore, store)))
    /\ last' = [op |-> "copy", ref |-> r]
    /\ UNCHANGED <<peer, stack, ret, slot, funcs, cache, nextFn, wrapHist, store,
                   codeStore, counter, defs, inflight, heap>>

\* copy.deepcopy(proxy) (85-86, 180-181)
DeepCopy(r) ==
    /\ snaps = <<>>
    /\ IF Overflows(heap, r, "deepcopy", 1)
       THEN /\ snaps' = snaps
            /\ last' = [op |-> "deepcopy", ref |-> r, raised |-> "RuntimeError"]
       ELSE /\ snaps' = Append(snaps, Snapshot("deep", r,
                                               deepcopy(heap, r, codeStore, store)))
            /\ last' = [op |-> "deepcopy", ref |-> r, raised |-> "none"]
    /\ UNCHANGED <<peer, stack, ret, slot, funcs, cache, nextFn, wrapHist, store,
                   codeStore, counter, defs, inflight, heap>>

\* host code adds an element or a key to its collection: something2.append(3)
\* (tests.py 189), something2.b = 3 (226)
SnapAdd(i, v) ==
    /\ LET c == snaps[i].value
       IN  IF c.k = "list"
           THEN /\ Len(c.items) < MaxLen
                /\ snaps' = [snaps EXCEPT ![i].value = HList(Append(c.items, v))]
           ELSE snaps' = [snaps EXCEPT ![i].value = HDict(Put(c.props, "b", v))]
    /\ last' = SnapOp("snapadd", i, PyNone, v)
    /\ UNCHANGED <<peer, stack, ret, slot, funcs, cache, nextFn, wrapHist, store,
                   codeStore, counter, defs, inflight, heap>>

\* the items of a host collection
Items(c) == IF c.k = "list" THEN {c.items[j] : j \in 1..Len(c.items)}
            ELSE {c.props[key] : key \in DOMAIN c.props}

\* a host collection with item e replaced by f
Replace(c, e, f) ==
    IF c.k = "list"
    THEN HList([j \in 1..Len(c.items) |-> IF c.items[j] = e THEN f ELSE c.items[j]])
    ELSE HDict([key \in DOMAIN c.props |-> IF c.props[key] = e THEN f ELSE c.props[key]])

\* host code mutates an item of its collection: something2[0].key = 2
\* (tests.py 188, 201), something2.a.key = 2 (225, 238).  An item that is a
\* proxy is mutated by JSValue.__setitem__, one that is a host dict in place.
SnapSetNested(i, e, v) ==
    /\ e \in Items(snaps[i].value)
    /\ \/ /\ e.k = "proxy" /\ IsObject(heap, e.val.r)
          /\ heap' = setProperty(heap, e.val.r, "key", toJS(v))
          /\ snaps' = snaps
       \/ /\ e.k = "dict"
          /\ snaps' = [snaps EXCEPT ![i].value = Replace(@, e, HDict(Put(e.props, "key", v)))]
          /\ heap' = heap
    /\ last' = SnapOp("snapnested", i, e, v)
    /\ UNCHANGED <<peer, stack, ret, slot, funcs, cache, nextFn, wrapHist, store,
                   codeStore, counter, defs, inflight>>

ProxyNext ==
    \/ \E lit \in Literals : EvalLiteral(lit)
    \/ \E r \in DOMAIN heap, idx \in Indexes : ArrGet(r, idx)
    \/ \E r \in DOMAIN heap, idx \in Indexes : ArrDel(r, idx)
    \/ \E r \in DOMAIN heap, idx \in Indexes, v \in StoredValues : ArrSet(r, idx, v)
    \/ \E r \in DOMAIN heap, idx \in Indexes, v \in StoredValues : ArrInsert(r, idx, v)
    \/ \E r \in DOMAIN heap, name \in Names : ObjGet(r, name)
    \/ \E r \in DOMAIN heap, name \in Names, v \in StoredValues : ObjSet(r, name, v)
    \/ \E r \in DOMAIN heap, name \in Names : ObjDel(r, name)

ProxySpec == Init /\ [][ProxyNext]_vars

\* len(v) of a host value or proxy, -1 standing for the TypeError of a value
\* that has no length
LenOf(h, v) ==
    IF v.k = "list" THEN Len(v.items)
    ELSE IF v.k = "dict" THEN Cardinality(DOMAIN v.props)
    ELSE IF v.k = "proxy" THEN Cardinality(Keys(h, v.val.r))
    ELSE -1

\* JSArray.__eq__ (88-89): len(self) == len(other) and all(a == b for a, b in
\* zip(self, other)); len(other) raises TypeError when other has no length,
\* and zip takes the keys of a mapping
ArrayEq(h, r, other, cs, st) ==
    IF LenOf(h, other) = -1 THEN [raised |-> "TypeError", result |-> PyNone]
    ELSE IF ArrayLen(h, r) # LenOf(h, other) THEN [raised |-> "none", result |-> Bool(FALSE)]
    ELSE LET o == View(other, h)
         IN  [raised |-> "none",
              result |-> Bool(/\ o.k = "list"
                              /\ \A j \in 1..ArrayLen(h, r) :
                                    Get(h, r, j - 1, cs, st) = o.items[j])]

\* JSObject.__eq__ (129-133): len(self) == len(other) and all(v == other[k]
\* for k, v in self.iteritems()), False on TypeError.  other[k] raises
\* KeyError for a key a mapping lacks, IndexError for a name given to an array
\* proxy, TypeError for a name given to a list; all() stops at the first
\* unequal pair, so the order of the keys decides which comes first.
ObjectEq(h, r, other, cs, st) ==
    IF LenOf(h, other) = -1 THEN {[raised |-> "none", result |-> Bool(FALSE)]}
    ELSE IF LenOf(h, Proxy(Ref(r))) # LenOf(h, other)
    THEN {[raised |-> "none", result |-> Bool(FALSE)]}
    ELSE IF other.k = "list" THEN {[raised |-> "none", result |-> Bool(h[r].props = NoKw)]}
    ELSE IF other.k = "proxy" /\ IsArray(h, other.val.r)
    THEN {[raised |-> IF h[r].props = NoKw THEN "none" ELSE "IndexError",
           result |-> IF h[r].props = NoKw THEN Bool(TRUE) ELSE PyNone]}
    ELSE LET o == View(other, h)
             keys == DOMAIN h[r].props
             missing == {key \in keys : key \notin DOMAIN o.props}
             unequal == {key \in keys \ missing : Get(h, r, key, cs, st) # o.props[key]}
         IN  {[raised |-> "KeyError", result |-> PyNone] : x \in missing}
             \cup {[raised |-> "none", result |-> Bool(FALSE)] : x \in unequal}
             \cup {[raised |-> "none", result |-> Bool(TRUE)] :
                      x \in {y \in {1} : missing \cup unequal = {}}}

\* what host code compares a proxy with
EqOperands ==
    { HList(<<Num(1), Num(2), Num(3)>>), HList(<<Num(1), Num(2), Num(4)>>),
      HDict([key |-> Num(1)]), HDict([b |-> Num(1)]), HDict([key |-> Num(4)]),
      PyObject, Num(1) }

\* proxy == other, for a proxy whose items are numbers
Equals(r, other) ==
    /\ \A c \in Cells(<<heap[r]>>) : c.k = "jsnum"
    /\ other.k = "proxy" => \A c \in Cells(<<heap[other.val.r]>>) : c.k = "jsnum"
    /\ \E out \in (IF IsArray(heap, r) THEN {ArrayEq(heap, r, other, codeStore, store)}
                    ELSE ObjectEq(heap, r, other, codeStore, store)) :
          last' = [op |-> "eq", ref |-> r, other |-> other, raised |-> out.raised,
                   result |-> out.result]
    /\ UNCHANGED <<peer, stack, ret, slot, funcs, cache, nextFn, wrapHist, store,
                   codeStore, counter, defs, inflight, heap, snaps>>

\* reading, storing and deleting through proxies: an inherited name among
\* the keys, a host object without script encoding among the values
KeyNext ==
    \/ \E lit \in Literals : EvalLiteral(lit)
    \/ \E r \in DOMAIN heap, name \in Names \cup DOMAIN Inherited : ObjGet(r, name)
    \/ \E r \in DOMAIN heap, name \in Names \cup DOMAIN Inherited,
             v \in StoredValues \cup {PyObject} : ObjSet(r, name, v)
    \/ \E r \in DOMAIN heap, name \in Names \cup DOMAIN Inherited : ObjDel(r, name)
    \/ \E r \in DOMAIN heap, idx \in 0..(MaxLen - 1), v \in StoredValues \cup {PyObject} :
          ArrSet(r, idx, v)
    \/ \E r \in DOMAIN heap, v \in StoredValues \cup {PyObject} : ArrInsert(r, 0, v)
    \/ \E r \in DOMAIN heap, other \in EqOperands \cup {Proxy(Ref(x)) : x \in DOMAIN heap} :
          Equals(r, other)

KeySpec == Init /\ [][KeyNext]_vars

\* attribute syntax on object proxies
AttrNext ==
    \/ \E lit \in Literals : EvalLiteral(lit)
    \/ \E r \in DOMAIN heap, attr \in {"key"} \cup ProxyAttributes : AttrGet(r, attr)
    \/ \E r \in DOMAIN heap, attr \in {"key"} \cup ProxyAttributes, v \in StoredValues :
          AttrSet(r, attr, v)
    \/ \E r \in DOMAIN heap, attr \in {"key"} \cup ProxyAttributes : AttrDel(r, attr)

AttrSpec == Init /\ [][AttrNext]_vars

\* rendering, comparing and deep-copying nested and self-containing values
CycleNext ==
    \/ \E lit \in CyclicLiterals : EvalLiteral(lit)
    \/ \E r \in DOMAIN heap : Render(r)
    \/ \E r \in DOMAIN heap : EqualsItself(r)
    \/ \E r \in DOMAIN heap : DeepCopy(r)
    \/ \E r \in DOMAIN heap, x \in DOMAIN heap : ObjSet(r, "a", Proxy(Ref(x)))
    \/ \E r \in DOMAIN heap, x \in DOMAIN heap : ArrSet(r, 0, Proxy(Ref(x)))

CycleSpec == Init /\ [][CycleNext]_vars

UnwrapMutCopy(h, v) == [heap |-> Append(h, h[v.val.r]), val |-> Ref(Len(h) + 1)]

\* toJS (304-306): a proxy is encoded as its own script value.  An encoding
\* gives the heap afterwards and the script value.
Unwrap(h, v) == [heap |-> h, val |-> v.val]

\* toJS (298-329) with the engine's objects: a host sequence becomes a new
\* array that is extended with its items (316-320), a host mapping a new
\* object that is updated with its entries (321-325), each item encoded in turn
RECURSIVE Encode(_, _)
RECURSIVE Extend(_, _, _)
RECURSIVE Update(_, _, _, _)
Encode(h, v) ==
    IF v.k = "proxy" THEN Unwrap(h, v)
    ELSE IF v.k = "list"
    THEN LET r == Len(h) + 1
         IN  [heap |-> Extend(Append(h, Arr(<<>>)), r, v.items), val |-> Ref(r)]
    ELSE IF v.k = "dict"
    THEN LET r == Len(h) + 1
         IN  [heap |-> Update(Append(h, Obj(NoKw)), r, v.props, DOMAIN v.props), val |-> Ref(r)]
    ELSE [heap |-> h, val |-> toJS(v)]

\* MutableSequence.extend: append, that is insert(len(self), item), per item
Extend(h, r, items) ==
    IF items = <<>> THEN h
    ELSE LET e == Encode(h, Head(items))
         IN  Extend(Splice(e.heap, r, ArrayLen(e.heap, r), 0, <<e.val>>), r, Tail(items))

\* MutableMapping.update: self[key] = value per entry
Update(h, r, props, keys) ==
    IF keys = {} THEN h
    ELSE LET key == CHOOSE x \in keys : TRUE
             e == Encode(h, props[key])
         IN  Update(setProperty(e.heap, r, key, e.val), r, props, keys \ {key})

\* the host collections given to script
HostCollections ==
    { HList(<<Num(1), Num(2)>>),
      HDict([key |-> Num(1)]),
      HList(<<HDict([key |-> Num(1)])>>) }

\* proxy[name] = c for a host collection c that host code keeps (38-39)
StoreHost(r, name, c) ==
    /\ IsObject(heap, r)
    /\ snaps = <<>>
    /\ LET e == Encode(heap, c)
       IN  /\ Len(e.heap) <= MaxRefs
           /\ heap' = setProperty(e.heap, r, name, e.val)
           /\ snaps' = <<Snapshot("host", e.val.r, c)>>
    /\ last' = [op |-> "store", ref |-> r, name |-> name, arg |-> c, heapBefore |-> heap]
    /\ UNCHANGED <<peer, stack, ret, slot, funcs, cache, nextFn, wrapHist, store,
                   codeStore, counter, defs, inflight>>

\* proxy[name] = other for another proxy (38-39)
StoreProxy(r, name, other) ==
    /\ IsObject(heap, r) /\ other # r
    /\ \A c \in Cells(<<heap[other]>>) : c.k # "ref"
    /\ LET e == Encode(heap, Proxy(Ref(other)))
       IN  heap' = setProperty(e.heap, r, name, e.val)
    /\ last' = [op |-> "storeproxy", ref |-> r, name |-> name, arg |-> Proxy(Ref(other)),
                heapBefore |-> heap]
    /\ UNCHANGED <<peer, stack, ret, slot, funcs, cache, nextFn, wrapHist, store,
                   codeStore, counter, defs, inflight, snaps>>

\* the host values sent through the engine and back
RoundTripValues ==
    {Num(n) : n \in -2..3} \cup {Float("fin", h) : h \in -7..7}
        \cup {Float(sp, 0) : sp \in {"nan", "inf", "ninf"}}
        \cup {Bool(TRUE), Bool(FALSE), Str("a"), Str(""), PyNone}

\* toPy(toJS(v)) of a simple host value (toJS 298-312, toPy 223-243)
RoundTrip(v) ==
    /\ last' = [op |-> "roundtrip", input |-> v, encoded |-> toJS(v),
                result |-> toPy(toJS(v), codeStore, store)]
    /\ UNCHANGED <<peer, stack, ret, slot, funcs, cache, nextFn, wrapHist, store,
                   codeStore, counter, defs, inflight, heap, snaps>>

\* [toJS(a) for a in args] (155)
RECURSIVE EncodeAll(_, _)
EncodeAll(h, args) ==
    IF args = <<>> THEN [heap |-> h, val |-> <<>>]
    ELSE LET e == Encode(h, Head(args))
             rest == EncodeAll(e.heap, Tail(args))
         IN  [heap |-> rest.heap, val |-> <<e.val>> \o rest.val]

moddedArgsMutNoKwargs(h, args, kwargs) == EncodeAll(h, args)

\* _handleCall (155-158): the positional arguments encoded in order and,
\* when there are keyword arguments, one object holding them as the last
moddedArgs(h, args, kwargs) ==
    LET pos == EncodeAll(h, args)
    IN  IF kwargs # NoKw
        THEN LET kw == Encode(pos.heap, HDict(kwargs))
             IN  [heap |-> kw.heap, val |-> Append(pos.val, kw.val)]
        ELSE pos

\* the positional and the keyword arguments host code calls a proxy with
PositionalArgs == {<<>>, <<Num(1)>>, <<Num(1), Num(2)>>}

KeywordArgs == {NoKw, [k |-> Num(1)], [test |-> Num(1), b |-> Num(2)]}

\* JSObject.__call__ (164-167) and _handleCall (153-159) on the proxy of
\* function(one, two, kwargs) {return [one, two, kwargs]} (tests.py 279),
\* taken with its arguments object: the function returns what it received,
\* an array, whose proxy throwIfNecessary hands on as it is
HandleCall(args, kwargs) ==
    /\ LET m == moddedArgs(heap, args, kwargs)
           returned == Len(m.heap) + 1
       IN  /\ returned <= MaxRefs
           /\ heap' = Append(m.heap, Arr(m.val))
           /\ last' = [op |-> "call", args |-> args, kwargs |-> kwargs,
                       received |-> m.val, heapBefore |-> heap,
                       result |-> toPy(Ref(returned), codeStore, store)]
    /\ UNCHANGED <<peer, stack, ret, slot, funcs, cache, nextFn, wrapHist, store,
                   codeStore, counter, defs, inflight, snaps>>

\* conversions of simple values and of call arguments
ConvNext ==
    \/ \E v \in RoundTripValues : RoundTrip(v)
    \/ \E args \in PositionalArgs, kwargs \in KeywordArgs : HandleCall(args, kwargs)

ConvSpec == Init /\ [][ConvNext]_vars

\* host collections and proxies stored in a script object, and the
\* mutations on either side afterwards
EncodeNext ==
    \/ \E lit \in {l \in Literals : IsObject(l, 1)} : EvalLiteral(lit)
    \/ \E r \in DOMAIN heap, c \in HostCollections : StoreHost(r, "b", c)
    \/ \E r \in DOMAIN heap, other \in DOMAIN heap : StoreProxy(r, "b", other)
    \/ \E i \in DOMAIN snaps, v \in StoredValues : SnapAdd(i, v)
    \/ \E i \in DOMAIN snaps :
          \E e \in Items(snaps[i].value), v \in StoredValues : SnapSetNested(i, e, v)
    \/ \E r \in DOMAIN heap, v \in StoredValues : ArrInsert(r, 0, v)
    \/ \E r \in DOMAIN heap, v \in StoredValues : ObjSet(r, "key", v)

EncodeSpec == Init /\ [][EncodeNext]_vars

\* the programs whose value holds another object
NestedLiterals == {lit \in Literals : Len(lit) > 1}

\* host code takes one copy of a proxy and then mutates the copy, the
\* original and what they hold
CopyNext ==
    \/ \E lit \in NestedLiterals : EvalLiteral(lit)
    \/ \E r \in DOMAIN heap : Copy(r)
    \/ \E r \in DOMAIN heap : DeepCopy(r)
    \/ \E i \in DOMAIN snaps, v \in StoredValues : SnapAdd(i, v)
    \/ \E i \in DOMAIN snaps :
          \E e \in Items(snaps[i].value), v \in StoredValues : SnapSetNested(i, e, v)
    \/ \E r \in DOMAIN heap, v \in StoredValues : ArrInsert(r, 0, v)
    \/ \E r \in DOMAIN heap : ArrDel(r, 0)
    \/ \E r \in DOMAIN heap, name \in Names, v \in StoredValues : ObjSet(r, name, v)
    \/ \E r \in DOMAIN heap, name \in Names : ObjDel(r, name)

CopySpec == Init /\ [][CopyNext]_vars

(***************************************************************************)
(* Function proxies and the receiver of their calls (pyproxies 153-167).   *)
(* The program is that of tests.py 294-300: the constructor Test sets      *)
(* this.test = 23 and this.func, a function that returns this.test.        *)
(***************************************************************************)
\* the engine's global object: the first object it creates
Global == 1

TestFn == FnVal("scope", 2)

FuncFn == FnVal("scope", 5)

\* JSObject.__init__ (123-127): the proxy toPy makes over fn, given instance
Method(fn, instance) == [k |-> "proxy", val |-> fn, instance |-> instance]

\* the engine runs fn with the receiver this: the heap afterwards and the value
Run(h, fn, this) ==
    IF fn = TestFn
    THEN [heap |-> setProperty(setProperty(h, this, "test", JsInt(23)), this, "func", FuncFn),
          val |-> Absent]
    ELSE [heap |-> h, val |-> GetProperty(h, this, "test")]

\* QJSValue.callAsConstructor: the receiver is a new object, which is the
\* result unless the function returns an object of its own
callAsConstructor(h, fn) ==
    LET this == Len(h) + 1
        out == Run(Append(h, Obj(NoKw)), fn, this)
    IN  [heap |-> out.heap, this |-> this,
         val |-> IF out.val.k = "ref" THEN out.val ELSE Ref(this)]

thisValueMutGlobal(fn) == Global

\* __call__ (165): self.instance or self.js.global_.val
thisValue(fn) == IF fn.instance.k # "pynone" THEN fn.instance.r ELSE Global

\* eval of the program: Test becomes a property of the global object
EvalScope ==
    /\ heap = <<>>
    /\ heap' = <<Obj([Test |-> TestFn])>>
    /\ last' = NoOp
    /\ UNCHANGED <<peer, stack, ret, slot, funcs, cache, nextFn, wrapHist, store,
                   codeStore, counter, defs, inflight, snaps>>

\* JSObject.__getitem__ (135-138) of a function: _get (35-36) hands toPy the
\* object the property is read from
GetMethod(r, name) ==
    /\ r \in DOMAIN heap /\ IsObject(heap, r)
    /\ name \in DOMAIN heap[r].props /\ heap[r].props[name].k = "fn"
    /\ last' = [op |-> "getfn", fn |-> Method(heap[r].props[name], Ref(r)), origin |-> r]
    /\ UNCHANGED <<peer, stack, ret, slot, funcs, cache, nextFn, wrapHist, store,
                   codeStore, counter, defs, inflight, heap, snaps>>

\* eval of a function expression (216): toPy is given no instance
EvalFunction(fn) ==
    /\ heap # <<>>
    /\ last' = [op |-> "getfn", fn |-> Method(fn, PyNone), origin |-> 0]
    /\ UNCHANGED <<peer, stack, ret, slot, funcs, cache, nextFn, wrapHist, store,
                   codeStore, counter, defs, inflight, heap, snaps>>

\* JSObject.__call__ (164-167) with no arguments
CallMethod ==
    /\ last.op \in {"getfn", "fcall"}
    /\ LET this == thisValue(last.fn)
           out == Run(heap, last.fn.val, this)
       IN  /\ heap' = out.heap
           /\ last' = [op |-> "fcall", how |-> "call", fn |-> last.fn, origin |-> last.origin,
                       receiver |-> this, heapBefore |-> heap,
                       result |-> toPy(out.val, codeStore, store)]
    /\ UNCHANGED <<peer, stack, ret, slot, funcs, cache, nextFn, wrapHist, store,
                   codeStore, counter, defs, inflight, snaps>>

\* JSObject.new (161-162) with no arguments
NewMethod ==
    /\ last.op \in {"getfn", "fcall"}
    /\ Len(heap) < MaxRefs
    /\ LET out == callAsConstructor(heap, last.fn.val)
       IN  /\ heap' = out.heap
           /\ last' = [op |-> "fcall", how |-> "new", fn |-> last.fn, origin |-> last.origin,
                       receiver |-> out.this, heapBefore |-> heap,
                       result |-> toPy(out.val, codeStore, store)]
    /\ UNCHANGED <<peer, stack, ret, slot, funcs, cache, nextFn, wrapHist, store,
                   codeStore, counter, defs, inflight, snaps>>

CallNext ==
    \/ EvalScope
    \/ \E r \in DOMAIN heap, name \in {"Test", "func"} : GetMethod(r, name)
    \/ \E fn \in {TestFn, FuncFn} : EvalFunction(fn)
    \/ CallMethod
    \/ NewMethod

CallSpec == Init /\ [][CallNext]_vars

(***************************************************************************)
(* Properties.                                                             *)
(***************************************************************************)
Frames == 1..Len(stack)

\* the engine result has just been decoded for the host caller of eval or of a proxy
Delivered == ret.k \in {"val", "pyexc"} /\ ret.from \in {"eval", "proxycall"}

\* a failure raised by user host code deeper in the stack has reached this caller
Escaped == /\ ret.k = "pyexc" /\ ret.from \in {"eval", "proxycall"}
           /\ inflight # NoFailure
           /\ Len(inflight.stack) > Len(stack)

\* one descriptor per user activation of stk, outermost first
RECURSIVE UserFrames(_)
UserFrames(stk) ==
    IF stk = <<>> THEN <<>>
    ELSE LET f == Head(stk)
             rest == UserFrames(Tail(stk))
         IN  IF f.t = "py" THEN <<[path |-> UserFile, line |-> 1, func |-> f.func]>> \o rest
             ELSE IF f.t = "js"
             THEN <<[path |-> f.path, line |-> f.line,
                     func |-> IF f.func = "%entry" THEN "<global scope>" ELSE f.func]>>
                  \o rest
             ELSE rest

Positions(tb) == [i \in 1..Len(tb) |->
                    [path |-> tb[i].path, line |-> tb[i].line, func |-> tb[i].func]]

\* C1: under re-entrant nesting every dispatch pops the argument list its own
\* wrapper placed, and every wrapper reads from the slot the record its own
\* dispatch wrote (nothing when it wrote nothing), never one of another call.
C1_SlotIsolation ==
    \A i \in Frames :
        /\ stack[i].t = "callback" =>
              /\ i > 1 /\ stack[i - 1].t = "wrapper"
              /\ stack[i].args.owner = i - 1
              /\ stack[i].args.items = stack[i - 1].args
        /\ (stack[i].t = "wrapper" /\ stack[i].pc = "read") =>
              /\ stack[i].result = stack[i].wrote
              /\ stack[i].result # Absent => stack[i].result.owner = i + 1

\* an inner wrapper has read its record while an outer dispatch is in progress
C1_Witness ==
    \E i, j \in Frames :
        /\ j < i
        /\ stack[j].t = "callback"
        /\ stack[i].t = "wrapper" /\ stack[i].pc = "read" /\ stack[i].result # Absent

\* C2: every dispatch ends with exactly one record written to the slot: a
\* result record when the callable returned, an exception record with the
\* failure's kind name, message and frames when it failed, whatever the kind
\* of failure and the binding strategy in effect.
C2_EveryDispatchWritesRecord ==
    \A i \in Frames :
        (stack[i].t = "wrapper" /\ stack[i].pc = "read") =>
            LET w == stack[i]
            IN  /\ w.wrote # Absent
                /\ w.outcome.k = "val" => w.wrote.type = "result"
                /\ w.outcome.k = "pyexc" =>
                      /\ w.wrote.type = "exception"
                      /\ w.wrote.value.name = NameOf(w.outcome.e)
                      /\ w.wrote.value.message = w.outcome.e.msg

\* C3: the callable is first called with all-but-last arguments positional and
\* the last unpacked as keywords; when that does not bind it is called with
\* the whole list positional.  func(1, 2, {test: 1, b: 2}) on a callable with
\* *args and **kwargs delivers (1, 2) and {test: 1, b: 2}.
C3_BindingStrategies ==
    \A i \in Frames :
        (stack[i].t = "callback" /\ i < Len(stack)) =>
            LET cb == stack[i]
                body == stack[i + 1]
                items == cb.args.items
                n == Len(items)
                mapping == n > 0 /\ items[n].k \in {"obj", "fn"}
                keys == IF mapping /\ items[n].k = "obj" THEN DOMAIN items[n].props ELSE {}
            IN  /\ cb.attempt = 1 =>
                      /\ mapping
                      /\ Len(body.pos) = n - 1
                      /\ \A j \in 1..(n - 1) : body.pos[j] = Num(items[j].h \div 2)
                      /\ DOMAIN body.kw = keys
                      /\ \A key \in keys : body.kw[key] = Num(items[n].props[key].h \div 2)
                /\ cb.attempt = 2 =>
                      /\ Len(body.pos) = n
                      /\ \A j \in 1..n :
                            items[j].k = "jsnum" => body.pos[j] = Num(items[j].h \div 2)
                      /\ body.kw = NoKw
                /\ (cb.attempt = 2 /\ cb.why = "nobind") =>
                      \/ ~mapping
                      \/ (funcs[cb.id] = "exc" /\ (n > 1 \/ keys # {}))

\* func(1, 2, {test: 1, b: 2}) has delivered (1, 2) and {test: 1, b: 2}
C3_Witness ==
    \E i \in Frames :
        /\ stack[i].t = "callback" /\ i < Len(stack)
        /\ funcs[stack[i].id] = "func"
        /\ stack[i].args.items
              = <<JsInt(1), JsInt(2), Obj([test |-> JsInt(1), b |-> JsInt(2)])>>
        /\ stack[i + 1].pos = <<Num(1), Num(2)>>
        /\ stack[i + 1].kw = [test |-> Num(1), b |-> Num(2)]

\* C4: wrapping the same callable any number of times yields the same wrapper
\* function, and two distinct callables yield two distinct wrappers.
C4_IdempotentWrapping ==
    /\ \A f \in Callables : Cardinality(wrapHist[f]) <= 1
    /\ \A f, g \in Callables : f # g => wrapHist[f] \cap wrapHist[g] = {}

\* a callable has been wrapped twice: two labels used, one function created
C4_Witness ==
    /\ counter = 3 /\ nextFn = 2
    /\ \E f \in Callables : wrapHist[f] = {1}

\* C5: a host-defined error of kind K and message m raised in a callback
\* invoked from script and left to escape through eval reaches the host
\* caller of eval as kind K with message m.
C5_KindFidelity ==
    (Escaped /\ ret.from = "eval" /\ inflight.cls = DomainError) =>
        /\ ret.e.cls = inflight.cls
        /\ ret.e.msg = inflight.msg

\* C6: a host failure raised in a dispatched callback is re-thrown in the
\* engine as a script error with the host kind name and message, which script
\* code can catch.
C6_RethrownInScript ==
    (ret.k = "jserr" /\ ret.from = "wrapper" /\ inflight # NoFailure) =>
        /\ ret.e.name = inflight.cls.name
        /\ ret.e.msg = inflight.msg
        /\ Top.t = "js"

\* C7: when a failure raised by host code crosses script and host hops back
\* to a host caller, its stitched trace has exactly one frame per user stack
\* level of every hop above that caller, outermost first, and no bridge frame.
C7_TraceComplete ==
    Escaped =>
        Positions(ret.e.old)
            = UserFrames(SubSeq(inflight.stack, Len(stack) + 1, Len(inflight.stack)))

\* C8: eval and a proxy call never return an error value: when the engine's
\* result is a script error, thrown or merely returned, the host caller gets a
\* raised exception.
C8_ErrorsAreRaised ==
    (Delivered /\ ret.of.k = "error") => ret.k = "pyexc"

\* an error object that was the value of the program, not thrown, was raised
C8_Witness ==
    Delivered /\ ret.of.k = "error" /\ ~ret.thrown /\ ret.k = "pyexc"

\* C9: a script error whose name has no entry in the registry is raised as the
\* generic bridged error carrying the script error's name and message.
C9_GenericBridged ==
    (Delivered /\ ret.of.k = "error" /\ ret.of.name \notin DOMAIN store) =>
        /\ ret.k = "pyexc"
        /\ ret.e.cls = JSError
        /\ ret.e.name = ret.of.name
        /\ ret.e.msg = ret.of.msg

\* C10: a script error whose name is in the registry is raised as that host
\* kind, even when no callback ever raised it; malformed source fails with
\* the host SyntaxError.
C10_KnownKind ==
    (Delivered /\ ret.of.k = "error" /\ ret.of.name \in DOMAIN store) =>
        /\ ret.k = "pyexc"
        /\ ret.e.cls = store[ret.of.name]
        /\ ret.e.msg = ret.of.msg

\* the script value a stored host value becomes
Stored(v) == IF v.k = "num" THEN JsInt(v.n) ELSE v


\* the proxies host code can hold over the object or array r: the one eval or
\* a read returned, and those kept in the host's copies
ProxiesOver(r) ==
    {Proxy(Ref(r))}
    \cup {q \in {Shown(c) : c \in Cells(heap)} : q.k = "proxy" /\ q.val.r = r}

\* C11: a mutation made through one proxy (set, insert, delete) is observable
\* through every proxy over the same script value: proxies hold no copy.
C11_ProxiesAlias ==
    \A q \in (IF last.op \in {"set", "insert", "del", "oset", "odel"}
              THEN ProxiesOver(last.ref) ELSE {}) :
        LET r == q.val.r
        IN  /\ (last.op = "set" /\ last.idx >= 0) =>
                  Get(heap, r, last.idx, codeStore, store) = last.arg
            /\ (last.op = "insert" /\ last.idx \in 0..Len(last.before)) =>
                  /\ Get(heap, r, last.idx, codeStore, store) = last.arg
                  /\ ArrayLen(heap, r) = Len(last.before) + 1
            /\ (last.op = "del" /\ last.raised = "none") =>
                  ArrayLen(heap, r) = Len(last.before) - 1
            /\ last.op = "oset" =>
                  Get(heap, r, last.name, codeStore, store) = last.arg
            /\ (last.op = "odel" /\ last.raised = "none") =>
                  GetProperty(heap, r, last.name) = Absent

\* over [1, 2, 3], a[0] = 4 has been made and 4 is read back
C11_Witness ==
    /\ last.op = "set" /\ last.idx = 0
    /\ last.before = <<JsInt(1), JsInt(2), JsInt(3)>>
    /\ Get(heap, last.ref, 0, codeStore, store) = Num(4)

\* C17: reading or deleting element i of an array proxy of length n addresses
\* index n+i when i is negative, and fails with an index-range error, leaving
\* the array unchanged, when the index is outside -n..n-1.
C17_ReadDeleteIndex ==
    last.op \in {"get", "del"} =>
        LET n == Len(last.before)
            i == last.idx
            target == IF i < 0 THEN n + i ELSE i
            now == heap[last.ref].items
        IN  IF i \in (-n)..(n - 1)
            THEN /\ last.raised = "none"
                 /\ last.op = "get" =>
                       /\ last.result = Shown(last.before[target + 1])
                       /\ now = last.before
                 /\ last.op = "del" =>
                       now = [j \in 1..(n - 1) |->
                                IF j <= target THEN last.before[j] ELSE last.before[j + 1]]
            ELSE /\ last.raised = "IndexError"
                 /\ now = last.before

\* over [1, 2, 3, 4], index -2 has yielded 3
C17_Witness ==
    /\ last.op = "get" /\ last.idx = -2
    /\ last.before = <<JsInt(1), JsInt(2), JsInt(3), JsInt(4)>>
    /\ last.result = Num(3)

C19_Contiguous ==
    LET n == Len(last.before)
        i == last.idx
        now == heap[last.ref].items
    IN  /\ (last.op = "del" /\ i \in 0..(n - 1)) =>
              /\ Len(now) = n - 1
              /\ \A j \in 0..(n - 1) :
                    /\ j < i => now[j + 1] = last.before[j + 1]
                    /\ j > i => now[j] = last.before[j + 1]
        /\ (last.op = "insert" /\ i \in 0..n) =>
              /\ Len(now) = n + 1
              /\ now[i + 1] = Stored(last.arg)
              /\ \A j \in 0..(n - 1) :
                    /\ j < i => now[j + 1] = last.before[j + 1]
                    /\ j >= i => now[j + 2] = last.before[j + 1]

\* an element has been inserted between two others
C19_Witness ==
    /\ last.op = "insert"
    /\ last.idx > 0 /\ last.idx < Len(last.before)
    /\ Len(heap[last.ref].items) = Len(last.before) + 1

HeapOps == {"set", "insert", "del", "oset", "odel"}

SnapOps == {"snapadd", "snapnested"}

\* what host code sees through the proxy over r
Seen(r, h) == View(Proxy(Ref(r)), h)

\* C12: after b = deepcopy(a), no mutation of b at any depth changes a's
\* script value, and no later mutation of a's script value changes b.
C12_DeepCopyIsolated ==
    \A i \in DOMAIN snaps :
        snaps[i].mode = "deep" =>
            /\ (last.op \in SnapOps /\ last.snap = i) => heap = last.heapBefore
            /\ last.op \in HeapOps => View(snaps[i].value, heap) = last.views[i]

\* an item of the deep copy has been mutated and the original does not show it
C12_Witness ==
    /\ last.op = "snapnested"
    /\ snaps[last.snap].mode = "deep"
    /\ snaps[last.snap].value # last.valueBefore
    /\ Seen(snaps[last.snap].of, heap) # View(snaps[last.snap].value, heap)

\* C13: a shallow copy is detached only at the top level: adding an element or
\* key to the copy does not add it to the original, while a nested object or
\* array reached through the copy is a proxy over the original's nested value,
\* so mutating it through the copy is visible through the original.
C13_ShallowCopy ==
    /\ last.op = "copy" =>
          \A key \in Keys(heap, last.ref) :
              LET cell == GetProperty(heap, last.ref, key)
                  item == IF IsArray(heap, last.ref)
                          THEN snaps[1].value.items[key + 1]
                          ELSE snaps[1].value.props[key]
              IN  cell.k = "ref" => item = Proxy(cell)
    /\ \A i \in DOMAIN snaps :
          snaps[i].mode = "copy" =>
              /\ (last.op = "snapadd" /\ last.snap = i) => heap = last.heapBefore
              /\ (last.op = "snapnested" /\ last.snap = i /\ last.at.k = "proxy") =>
                    /\ Seen(last.at.val.r, heap).props["key"] = last.arg
                    /\ \A key \in Keys(heap, snaps[i].of) :
                          GetProperty(heap, snaps[i].of, key) = last.at.val =>
                              LET whole == Seen(snaps[i].of, heap)
                                  inner == IF whole.k = "list" THEN whole.items[key + 1]
                                           ELSE whole.props[key]
                              IN  inner.props["key"] = last.arg

\* an object was mutated through the copy and the original shows another value
\* than before
C13_Witness ==
    /\ last.op = "snapnested"
    /\ snaps[last.snap].mode = "copy"
    /\ last.at.k = "proxy"
    /\ Seen(snaps[last.snap].of, heap) # Seen(snaps[last.snap].of, last.heapBefore)

\* C14: the snapshot produced by copy, like the one produced by deepcopy, is
\* fully detached: no mutation made through it at any depth affects the
\* script value, and no mutation of the script value affects it.
C14_CopyDetached ==
    \A i \in DOMAIN snaps :
        /\ (last.op \in SnapOps /\ last.snap = i) => heap = last.heapBefore
        /\ last.op \in HeapOps => View(snaps[i].value, heap) = last.views[i]

\* C14 as the code has it: the snapshot of deepcopy is fully detached; the
\* snapshot of copy is detached at its top level only.  A mutation through a
\* snapshot reaches the script value only through a proxy item of a copy, and
\* a mutation of the script value shows in a snapshot only inside such an item.
C14_DetachedAtTopLevel ==
    \A i \in DOMAIN snaps :
        /\ (last.op \in SnapOps /\ last.snap = i /\ heap # last.heapBefore) =>
              /\ snaps[i].mode = "copy"
              /\ last.op = "snapnested" /\ last.at.k = "proxy"
        /\ (last.op \in HeapOps /\ View(snaps[i].value, heap) # last.views[i]) =>
              /\ snaps[i].mode = "copy"
              /\ \E e \in Items(snaps[i].value) : e.k = "proxy" /\ e.val.r = last.ref
              /\ LET now == View(snaps[i].value, heap)
                     was == last.views[i]
                 IN  IF now.k = "list" THEN Len(now.items) = Len(was.items)
                     ELSE DOMAIN now.props = DOMAIN was.props

\* the original of a copy got an element or key more and the copy did not
C14_Witness ==
    /\ last.op \in {"insert", "oset"}
    /\ snaps # <<>>
    /\ snaps[1].mode = "copy"
    /\ last.ref = snaps[1].of
    /\ Seen(last.ref, heap) # View(snaps[1].value, heap)
    /\ View(snaps[1].value, heap) = last.views[1]

\* the number a host number equals, in halves
Halves(v) == IF v.k = "num" THEN 2 * v.n ELSE v.h

\* the host's == on simple values: numbers by their value, NaN equal to nothing
HostEq(a, b) ==
    IF a.k \in {"num", "float"} /\ b.k \in {"num", "float"}
    THEN IF a.k = "float" /\ a.sp # "fin" THEN a = b /\ a.sp # "nan"
         ELSE IF b.k = "float" /\ b.sp # "fin" THEN FALSE
         ELSE Halves(a) = Halves(b)
    ELSE a = b

C16_CopyInReferenceThrough ==
    /\ last.op = "store" =>
           LET cell == heap[last.ref].props[last.name]
           IN  /\ cell.k = "ref"
               /\ cell.r > Len(last.heapBefore)
               /\ Seen(cell.r, heap) = last.arg
    /\ \A i \in DOMAIN snaps :
           snaps[i].mode = "host" =>
               /\ (last.op \in SnapOps /\ last.snap = i) => heap = last.heapBefore
               /\ last.op \in HeapOps => snaps[i].value = last.views[i]
    /\ last.op = "storeproxy" =>
           /\ heap[last.ref].props[last.name] = last.arg.val
           /\ Len(heap) = Len(last.heapBefore)

\* the script copy of a host collection has been mutated through its proxy
\* and the host collection does not show it
C16_Witness ==
    /\ snaps # <<>>
    /\ snaps[1].mode = "host"
    /\ last.op \in HeapOps
    /\ last.ref = snaps[1].of
    /\ Seen(snaps[1].of, heap) # snaps[1].value

\* C20: a call of a function proxy with p positional arguments hands the
\* script function those p encoded arguments and, when keyword arguments are
\* given, one more: an object whose properties are the keyword arguments.
C20_KeywordCall ==
    last.op = "call" =>
        LET p == Len(last.args)
            got == last.received
        IN  /\ Len(got) = IF last.kwargs # NoKw THEN p + 1 ELSE p
            /\ \A j \in 1..p : got[j] = toJS(last.args[j])
            /\ last.kwargs # NoKw =>
                   /\ got[p + 1].k = "ref"
                   /\ IsObject(heap, got[p + 1].r)
                   /\ Seen(got[p + 1].r, heap) = HDict(last.kwargs)

\* (1, 2) and k = 1 were given and the function received three arguments
C20_Witness ==
    /\ last.op = "call"
    /\ last.args = <<Num(1), Num(2)>>
    /\ last.kwargs = [k |-> Num(1)]
    /\ Len(last.received) = 3

\* C21: a function proxy read as a property of an object proxy is called
\* with that object as receiver, one obtained with no receiver is called with
\* the global object as receiver, and new calls the function as a constructor
\* on a new object whatever receiver the proxy is bound to.
C21_Receiver ==
    last.op = "fcall" =>
        LET expected == IF last.origin # 0 THEN last.origin ELSE Global
        IN  /\ last.how = "call" =>
                   /\ last.receiver = expected
                   /\ last.fn.val = FuncFn =>
                          last.result
                              = toPy(GetProperty(last.heapBefore, expected, "test"),
                                     codeStore, store)
            /\ last.how = "new" =>
                   /\ last.receiver \notin DOMAIN last.heapBefore
                   /\ last.result = Proxy(Ref(last.receiver))
                   /\ last.fn.val = TestFn =>
                          /\ heap[last.receiver].props
                                 = [test |-> JsInt(23), func |-> FuncFn]
                          /\ \A r \in DOMAIN last.heapBefore : heap[r] = last.heapBefore[r]

\* global_["Test"].new()["func"]() has returned 23 (tests.py 301)
C21_Witness ==
    /\ last.op = "fcall" /\ last.how = "call"
    /\ last.origin \notin {0, Global}
    /\ last.fn.val = FuncFn
    /\ last.result = Num(23)

\* C22: on an object proxy, reading a key the object does not have fails with
\* KeyError; deleting such a key fails with KeyError and changes nothing; and
\* once a key the object has is deleted, reading it fails with KeyError.
C22_AbsentKeys ==
    /\ last.op = "oget" =>
           (last.raised = "KeyError" <=> last.name \notin DOMAIN last.before)
    /\ last.op = "odel" =>
           IF last.name \notin DOMAIN last.before
           THEN /\ last.raised = "KeyError"
                /\ heap[last.ref].props = last.before
           ELSE /\ last.raised = "none"
                /\ last.name \notin DOMAIN heap[last.ref].props
                /\ ~hasProperty(heap, last.ref, last.name)

C24_StructuralEquality ==
    last.op = "eq" =>
        /\ last.raised = "none"
        /\ last.result = Bool(/\ last.other.k \in {"list", "dict", "proxy"}
                              /\ Seen(last.ref, heap) = View(last.other, heap))

\* C25: every label generated for an eval without a label differs from every
\* other generated in the process: those of one evaluator, the wrappings
\* included, are as many as its generations, and no label of one evaluator
\* is a label of another.
C25_LabelsUnique ==
    /\ Cardinality(DOMAIN codeStore) = counter - 1
    /\ Cardinality(DOMAIN peer.codeStore) = peer.counter - 1
    /\ DOMAIN codeStore \cap DOMAIN peer.codeStore = {}

FailedDispatches ==
    {i \in Frames : /\ stack[i].t = "wrapper" /\ stack[i].pc = "read"
                    /\ stack[i].outcome.k = "pyexc"
                    /\ stack[i].wrote # Absent}

\* the frames of the failure e captured by the dispatch, those of the bridge's
\* own files left out
Captured(e) == SelectSeq(e.tb, LAMBDA fr : fr.path \notin {InitFile, ProxyFile})

\* C27: when a host failure escapes a dispatched callback, the frame list
\* written to the slot is the frames the failure already carries followed by
\* the newly captured, bridge-filtered host frames of this dispatch.
C27_CarriedThenCaptured ==
    \A i \in FailedDispatches :
        LET e == stack[i].outcome.e
        IN  stack[i].wrote.value.oldTraceback = TraceToJS(e.old \o Captured(e))

\* C27, amended: the frame list written to the slot is the newly captured,
\* bridge-filtered host frames of this dispatch followed by the frames the
\* failure already carries.
C27_CapturedThenCarried ==
    \A i \in FailedDispatches :
        LET e == stack[i].outcome.e
        IN  stack[i].wrote.value.oldTraceback = TraceToJS(Captured(e) \o e.old)

\* a failure that carries script frames has escaped a callback through a host
\* frame, and its record has been written
C27_Witness ==
    \E i \in FailedDispatches :
        LET e == stack[i].outcome.e
        IN  /\ e.old # <<>>
            /\ Captured(e) # <<>>
            /\ Len(stack[i].wrote.value.oldTraceback.items) = Len(e.old) + Len(Captured(e))

\* the script frames the trace lines stand for, outermost first: a leading
\* line of the bootstrap script and everything from the next such line on
\* are dropped, and the global code is named '<global scope>'
Stitched(lines) ==
    LET body == IF lines # <<>> /\ lines[1].path = INIT_SCRIPT_NAME THEN Tail(lines) ELSE lines
        stops == {j \in 1..Len(body) : body[j].path = INIT_SCRIPT_NAME}
        n == IF stops = {} THEN Len(body)
             ELSE (CHOOSE j \in stops : \A x \in stops : j <= x) - 1
    IN  [i \in 1..n |->
            [path |-> body[n + 1 - i].path, line |-> body[n + 1 - i].line,
             func |-> IF body[n + 1 - i].func = "%entry" THEN "<global scope>"
                      ELSE body[n + 1 - i].func]]

\* C28: when a script error escapes into host code, the trace of the raised
\* exception is the error's script frames, one per trace line, without the
\* bootstrap script's, the global code relabeled, outermost first, followed
\* by the frames the error already carries.
C28_DecodedTrace ==
    (Delivered /\ ret.of.k = "error") =>
        /\ ret.k = "pyexc"
        /\ Positions(ret.e.old)
              = Stitched(ret.of.stack)
                \o (IF ret.of.old = Absent THEN <<>> ELSE Positions(TraceToPy(ret.of.old)))

\* C29: the source line attached to a stitched frame of a just evaluated text
\* is the line of that text the frame stands for, whatever line number the
\* evaluation started at, and the reconstruction does not fail for lack of
\* a source line.
C29_SourceLines ==
    (Delivered /\ ret.from = "eval" /\ ret.of.k = "error") =>
        /\ ret.k = "pyexc"
        /\ Len(ret.e.old) >= Len(Stitched(ret.of.stack))
        /\ \A i \in 1..Len(ret.e.old) :
              ret.e.old[i].path = ret.frame.path =>
                  ret.e.old[i].code
                    = LineText(ret.frame.code, ret.e.old[i].line - ret.frame.line + 1)

\* C30: a dispatch runs the body of the registered callable at most once: the
\* callable is never invoked under strategy (2) because its body raised while
\* it ran under strategy (1).
C30_BodyRunsOnce ==
    \A i \in Frames :
        stack[i].t = "callback" =>
            ~(stack[i].attempt = 2 /\ stack[i].why = "raised")

\* C31: the kind of every failure that left a dispatched callable and is not
\* a JSError is recorded in pythonExceptionStore under its name; the store
\* starts with the built-in kinds and never loses a name.
C31_KindsRecorded ==
    /\ DOMAIN InitialExceptionStore \subseteq DOMAIN store
    /\ \A i \in Frames :
          (/\ stack[i].t = "wrapper" /\ stack[i].pc = "read"
           /\ stack[i].outcome.k = "pyexc"
           /\ stack[i].outcome.e.cls # JSError) =>
              LET cls == stack[i].outcome.e.cls
              IN  cls.name \in DOMAIN store /\ store[cls.name] = cls

C33_RegistryStable ==
    [][/\ \A id \in DOMAIN funcs : id \in DOMAIN funcs' /\ funcs'[id] = funcs[id]
       /\ \A i \in 1..Len(stack') :
             stack'[i].t \in {"wrapper", "callback"} => stack'[i].id \in DOMAIN funcs']_vars

\* both callables are registered under their own keys, each with its wrapper
C33_Witness ==
    /\ Cardinality(DOMAIN funcs) = Cardinality(Callables)
    /\ \A f \in Callables : funcs[Identifier(f)] = f
    /\ DOMAIN cache = DOMAIN funcs

\* C34: attribute syntax never writes or deletes a script property whose name
\* is a genuine attribute of the proxy, and for any other name reading an
\* attribute just after writing v to it returns v.
C34_AttributesAgree ==
    [][/\ (last'.op \in {"setattr", "delattr"} /\ last'.name \in ProxyAttributes) =>
             heap'[last'.ref].props = last'.before
       /\ (/\ last.op = "setattr" /\ last.raised = "none"
           /\ last'.op = "getattr"
           /\ last'.ref = last.ref /\ last'.name = last.name
           /\ last.name \notin ProxyAttributes) =>
             (last'.raised = "none" /\ last'.result = last.arg)]_vars

\* C35: repr(proxy) and proxy == proxy finish without RuntimeError on every
\* script value, also one that contains itself directly or through a cycle
\* that alternates arrays and objects.
C35_RenderCompareTerminate ==
    last.op \in {"repr", "eqself"} => last.raised = "none"

\* C36: copy.deepcopy(proxy) finishes and yields a snapshot for every script
\* value, also one in which an array or object contains itself.
C36_DeepCopyTerminates ==
    last.op = "deepcopy" => (last.raised = "none" /\ snaps # <<>>)

\* C37: a callable that takes variadic positional arguments receives every
\* script argument: when the last one is a script function or an object
\* without enumerable properties it is still delivered, as the last
\* positional argument.
C37_NoArgumentLost ==
    \A i \in Frames :
        (/\ stack[i].t = "callback" /\ i < Len(stack)
         /\ Sig(funcs[stack[i].id]).va) =>
            LET items == stack[i].args.items
                n == Len(items)
            IN  (/\ n > 0
                 /\ \/ items[n].k = "fn"
                    \/ items[n].k = "obj" /\ DOMAIN items[n].props = {}) =>
                    Len(stack[i + 1].pos) = n

\* C38: whenever no wrapper call is in progress the slot holds neither an
\* argument list nor a result record, whether the evaluations and proxy calls
\* so far returned or raised and whatever the callables did.
C38_SlotEmptyWhenIdle ==
    (\A i \in Frames : stack[i].t \notin {"wrapper", "callback"}) =>
        (slot.args = Absent /\ slot.result = Absent)

\* a top-level eval has raised the failure of a callable it dispatched, and
\* host code is back at top level
C38_Witness ==
    /\ Len(stack) = 1
    /\ ret.k = "pyexc" /\ ret.from = "eval"
    /\ inflight # NoFailure
    /\ slot.args = Absent /\ slot.result = Absent

====
